---------------------------- MODULE Spec2Model ----------------------------
(***************************************************************************)
(* A model of the pymud3 multi-user server.                                *)
(*                                                                         *)
(*   Spec      mud-multi.py + integrated_web.py, every handler one action  *)
(*             (login, movement, teleport, portal, attack, cast, quit,     *)
(*             connection loss, web disconnect, shutdown, combat tick).    *)
(***************************************************************************)
EXTENDS Integers, Sequences, FiniteSets, TLC

(***************************************************************************)
(* World fixture: the tables the world loader hands to the core.           *)
(***************************************************************************)
Rooms == {2201, 2202}

StartRoom == 2201

SafeRoom == 2201

\* The exit lines of the area file: direction -> (to_room_vnum, door_flags).
Exits ==
  [r \in Rooms |->
     IF r = 2201
     THEN [north |-> [to_room_vnum |-> 2202, door_flags |-> 0]]
     ELSE [south |-> [to_room_vnum |-> 2201, door_flags |-> 0]]]

\* parse_room: the exit_data of an exit line and its SECRET_CODE entry ("" for
\* none).
ExitData(to_room_vnum, door_flags, secret_code) ==
  [to_room_vnum |-> to_room_vnum, door_flags |-> door_flags,
   is_open |-> door_flags \in {0, 2},
   is_locked |-> door_flags \in {2, 3} \/ secret_code # "",
   secret_code |-> secret_code]

Directions == {"north", "south"}

\* Names a client may type at the login prompt.
Names == {"Rogue", "rogue", "bob"}

\* str.lower() on the names of the model.
Lower(n) == IF n = "Rogue" THEN "rogue" ELSE n

Sessions == {1, 2}

MaxLogins == 2

ObjIds == 1..MaxLogins

NoObj == 0

\* Player.__init__ attribute defaults.
Strength == 5

Agility == 5

Intelligence == 5

Vitality == 8

calculate_attack_power == Strength * 3

\* int(self.agility * 1.5)
calculate_defense == (Agility * 3) \div 2

calculate_max_hp == Vitality * 15

calculate_max_mana == Intelligence * 15

VARIABLES
  players,              \* players: name -> Player object
  pl,                   \* the Player objects, by object identity
  rooms,                \* rooms[vnum].players / rooms[vnum].mobs
  mobs,                 \* the Mobile objects, by object identity
  combatants,           \* keys of the combatants dict, in insertion order
  profiles,             \* player_saves/<name>.json
  portal_connections,   \* room_vnum -> destination room_vnum
  web_player_sessions,  \* session_id -> player_name
  sess,                 \* per connection: transport kind, position, local `player`
  reply,                \* what the last login attempt of a connection was told
  nextObj,              \* identity of the next Player object constructed
  server_running,       \* FALSE once shutdown_game has run
  players_lock,         \* the threads holding players_lock: none or one
  local,                \* per connection: the locals of its handler thread
  main,                 \* the main thread: position in shutdown_game, its snapshot
  net                   \* the transports: peers gone, sends failed, messages delivered

vars == <<players, pl, rooms, mobs, combatants, profiles, portal_connections,
          web_player_sessions, sess, reply, nextObj, server_running,
          players_lock, local, main, net>>

\* What a handler that runs as one step leaves alone.
threads == <<players_lock, local, main>>

(***************************************************************************)
(* Python containers.                                                      *)
(***************************************************************************)
Contains(seq, x) == \E i \in 1..Len(seq) : seq[i] = x

Count(seq, x) == Cardinality({i \in 1..Len(seq) : seq[i] = x})

\* list.remove(x): drops the first occurrence.
Remove(seq, x) ==
  IF ~Contains(seq, x) THEN seq
  ELSE LET k == CHOOSE i \in 1..Len(seq) :
                  seq[i] = x /\ \A j \in 1..(i - 1) : seq[j] # x
       IN  [i \in 1..(Len(seq) - 1) |-> IF i < k THEN seq[i] ELSE seq[i + 1]]

\* d[k] = v
DictPut(d, k, v) == [x \in DOMAIN d \cup {k} |-> IF x = k THEN v ELSE d[x]]

\* del d[k]
DictDel(d, k) == [x \in DOMAIN d \ {k} |-> d[x]]

EmptyDict == [x \in {} |-> 0]

(***************************************************************************)
(* The shared state as one value, so that a handler is the composition of  *)
(* the functions it calls.                                                 *)
(***************************************************************************)
World ==
  [players |-> players, pl |-> pl, rooms |-> rooms, mobs |-> mobs,
   combatants |-> combatants, profiles |-> profiles, net |-> net,
   raised |-> FALSE, attacks |-> <<>>]

NoProfile == [exists |-> FALSE]

BlankPlayer ==
  [name |-> "", current_room |-> 0, hp |-> 0, max_hp |-> 0, mana |-> 0,
   max_mana |-> 0, level |-> 0, experience |-> 0, inventory |-> <<>>,
   connected |-> FALSE]

\* Player.__init__(name, current_room_vnum, connection_handler)
PlayerInit(w, o, name, current_room_vnum) ==
  LET vnum == IF current_room_vnum \in Rooms THEN current_room_vnum ELSE 2201
  IN  [w EXCEPT
         !.pl[o] = [name |-> name, current_room |-> vnum,
                    hp |-> calculate_max_hp, max_hp |-> calculate_max_hp,
                    mana |-> calculate_max_mana, max_mana |-> calculate_max_mana,
                    level |-> 1, experience |-> 0, inventory |-> <<>>,
                    connected |-> TRUE],
         !.rooms[vnum].players = Append(@, o)]

\* An Object of the inventory as a profile holds it: a dict with the
\* attributes of the Object as its keys.
ObjectDict(vnum) == [vnum |-> vnum, all_keys |-> TRUE]

\* The inventory rebuilt from a profile: an Object for every dict that has
\* the keys of Object.__init__.
RECURSIVE ObjectsFrom(_, _)
ObjectsFrom(inventory, i) ==
  IF i > Len(inventory) THEN <<>>
  ELSE (IF inventory[i].all_keys THEN <<inventory[i].vnum>> ELSE <<>>)
       \o ObjectsFrom(inventory, i + 1)

\* Player.to_dict
to_dict(p) ==
  [exists |-> TRUE, hp |-> p.hp, max_hp |-> p.max_hp, mana |-> p.mana,
   max_mana |-> p.max_mana, level |-> p.level, experience |-> p.experience,
   inventory |-> [i \in 1..Len(p.inventory) |-> ObjectDict(p.inventory[i])],
   current_room_vnum |-> p.current_room]

\* Player.from_dict: the fields are assigned; no room list is touched.
from_dict(w, o, data) ==
  [w EXCEPT
     !.pl[o] = [@ EXCEPT !.hp = data.hp, !.max_hp = data.max_hp,
                         !.mana = data.mana, !.max_mana = data.max_mana,
                         !.level = data.level, !.experience = data.experience,
                         !.inventory = ObjectsFrom(data.inventory, 1),
                         !.current_room =
                            IF data.current_room_vnum \in Rooms
                            THEN data.current_room_vnum ELSE 2201]]

save_player_profile(w, o) ==
  [w EXCEPT !.profiles[w.pl[o].name] = to_dict(w.pl[o])]

load_player_profile(w, o) ==
  IF w.profiles[w.pl[o].name].exists
  THEN from_dict(w, o, w.profiles[w.pl[o].name])
  ELSE w

\* A close_connection that gives up the connection it finds open and takes a
\* closed one for a new one.
close_connection_flipping(w, o) == [w EXCEPT !.pl[o].connected = ~@]

close_connection(w, o) == [w EXCEPT !.pl[o].connected = FALSE]

(***************************************************************************)
(* Session registry: login and teardown (mud-multi.py, integrated_web.py)  *)
(***************************************************************************)
\* The test without the lower-casing.
NameInUseExact(w, name) == name \in DOMAIN w.players

\* name_lower in [existing_name.lower() for existing_name in players.keys()]
NameInUse(w, name) == Lower(name) \in {Lower(k) : k \in DOMAIN w.players}

\* p = Player(name, 2201, handler); load_player_profile(p); players[name] = p
CreateAndRegister(w, o, name) ==
  LET w1 == PlayerInit(w, o, name, StartRoom)
      w2 == load_player_profile(w1, o)
  IN  [w2 EXCEPT !.players = DictPut(@, name, o)]

\* The body of `with players_lock:` in player_login and in handle_login.
LoginSection(w, o, name) ==
  IF NameInUse(w, name) THEN w ELSE CreateAndRegister(w, o, name)

\* "Remove from room players list": only the list of the player's current_room.
Detach(w, o) ==
  LET r == w.pl[o].current_room
  IN  IF Contains(w.rooms[r].players, o)
      THEN [w EXCEPT !.rooms[r].players = Remove(@, o)]
      ELSE w

\* del players[name]: a KeyError when the key is not there.
DelPlayer(w, name) ==
  IF name \in DOMAIN w.players
  THEN [w EXCEPT !.players = DictDel(@, name)]
  ELSE [w EXCEPT !.raised = TRUE]

\* quit: the farewell is sent, the profile saved, the connection closed.
QuitSaveClose(w, o) == close_connection(save_player_profile(w, o), o)

\* quit: the body of `with players_lock:`.
QuitDropSection(w, o) ==
  IF w.pl[o].name \in DOMAIN w.players
  THEN DelPlayer(Detach(w, o), w.pl[o].name)
  ELSE w

\* process_player_command, command == 'quit'
QuitCommand(w, o) == QuitDropSection(QuitSaveClose(w, o), o)

\* A finally block without its `if player.name in players` test.
FinallyBlockUnguarded(w, o) ==
  DelPlayer(Detach(save_player_profile(w, o), o), w.pl[o].name)

\* handle_client, the finally block
FinallyBlock(w, o) ==
  IF w.pl[o].name \in DOMAIN w.players
  THEN DelPlayer(Detach(save_player_profile(w, o), o), w.pl[o].name)
  ELSE w

\* for player_name, player in players_list: send, save_player_profile, close
SaveAndClose(w, players_list) ==
  LET of(n) == CHOOSE o \in players_list : w.pl[o].name = n
  IN  [w EXCEPT
         !.profiles = [n \in DOMAIN @ |->
                         IF \E o \in players_list : w.pl[o].name = n
                         THEN to_dict(w.pl[of(n)]) ELSE @[n]],
         !.pl = [o \in DOMAIN @ |->
                   IF o \in players_list
                   THEN [@[o] EXCEPT !.connected = FALSE] ELSE @[o]]]

\* list(players.items()): the Player objects registered now.
PlayersList(w) == {w.players[k] : k \in DOMAIN w.players}

SaveAndCloseAll(w) == SaveAndClose(w, PlayersList(w))

\* handle_client after the finally block: every player is notified, saved,
\* closed, and players.clear() empties the registry.
ClientTail(w) == [SaveAndCloseAll(w) EXCEPT !.players = EmptyDict]

\* shutdown_game
shutdown_game(w) == [SaveAndCloseAll(w) EXCEPT !.players = EmptyDict]

\* handle_web_disconnect, the part under players_lock
WebDropSection(w, player_name) ==
  IF player_name \in DOMAIN w.players
  THEN LET player == w.players[player_name]
       IN  DelPlayer(Detach(save_player_profile(w, player), player), player_name)
  ELSE w

\* integrated_web.handle_web_disconnect for session id sid; m is
\* web_player_sessions.
handle_web_disconnect(w, m, sid) ==
  IF sid \in DOMAIN m
  THEN [w |-> WebDropSection(w, m[sid]), m |-> DictDel(m, sid)]
  ELSE [w |-> w, m |-> m]

(***************************************************************************)
(* World spatial state (mud-multi.py)                                      *)
(***************************************************************************)
\* The room behind an exit, whatever the state of its door.
MoveTargetThroughDoors(w, o, direction) ==
  LET old_room == w.pl[o].current_room
  IN  IF direction \notin DOMAIN w.rooms[old_room].exits THEN 0
      ELSE LET exit_data == w.rooms[old_room].exits[direction]
           IN  IF exit_data.to_room_vnum \notin Rooms THEN 0
               ELSE exit_data.to_room_vnum

\* Player.move: the room the move leads to, 0 when it fails.
MoveTarget(w, o, direction) ==
  LET old_room == w.pl[o].current_room
  IN  IF direction \notin DOMAIN w.rooms[old_room].exits THEN 0
      ELSE LET exit_data == w.rooms[old_room].exits[direction]
           IN  IF exit_data.door_flags \in {1, 3} /\ ~exit_data.is_open THEN 0
               ELSE IF exit_data.door_flags \in {1, 3} /\ exit_data.is_locked THEN 0
               ELSE IF exit_data.to_room_vnum \notin Rooms THEN 0
               ELSE exit_data.to_room_vnum

\* if self in old_room.players: old_room.players.remove(self)
LeaveRoom(w, o) == Detach(w, o)

\* self.current_room = rooms[next_room_vnum]
SetRoom(w, o, vnum) == [w EXCEPT !.pl[o].current_room = vnum]

\* self.current_room.players.append(self)
EnterRoom(w, o) == [w EXCEPT !.rooms[w.pl[o].current_room].players = Append(@, o)]

Move(w, o, direction) ==
  LET next_room_vnum == MoveTarget(w, o, direction)
  IN  IF next_room_vnum = 0 THEN w
      ELSE EnterRoom(SetRoom(LeaveRoom(w, o), o, next_room_vnum), o)

\* Player.teleport: current_room is assigned; no room list is touched.
Teleport(w, o, room_vnum) ==
  IF room_vnum \in Rooms THEN [w EXCEPT !.pl[o].current_room = room_vnum] ELSE w

\* process_player_command, command in ['portal', 'enter portal']
PortalTarget(w, o, portals) ==
  LET room_vnum == w.pl[o].current_room
  IN  IF room_vnum \notin DOMAIN portals THEN 0
      ELSE IF portals[room_vnum] \notin Rooms THEN 0
      ELSE portals[room_vnum]

EnterPortal(w, o, portals) ==
  LET dest_room_vnum == PortalTarget(w, o, portals)
  IN  IF dest_room_vnum = 0 THEN w
      ELSE EnterRoom(SetRoom(LeaveRoom(w, o), o, dest_room_vnum), o)

(***************************************************************************)
(* Mobiles: the hostile goblin process_resets places (1), and the guard    *)
(* of npcs.json that load_npcs_from_file places and appends to all_npcs    *)
(* (2).                                                                    *)
(***************************************************************************)
MobIds == {1, 2}

\* The hours of the day at which a schedule entry of an NPC is due.
Hours == {8, 20}

\* The level of the guard; Mobile.__init__ derives hp, defense and
\* attack_power from it.
GuardLevel == 10

MobData ==
  [m \in MobIds |->
     IF m = 1
     THEN [short_desc |-> "a goblin", keywords |-> {"goblin"}, level |-> 5,
           max_hp |-> 30, defense |-> 3, attack_power |-> 102, is_npc |-> FALSE,
           room_vnum |-> 2202, schedule |-> <<>>]
     ELSE [short_desc |-> "a guard", keywords |-> {"guard"}, level |-> GuardLevel,
           max_hp |-> GuardLevel \div 2, defense |-> (GuardLevel * 12) \div 10,
           attack_power |-> GuardLevel * 2, is_npc |-> TRUE,
           room_vnum |-> 2201, schedule |-> << <<8, 2202>>, <<20, 2201>> >>]]

\* all_npcs
all_npcs == <<2>>

\* rooms.values(): the rooms in the order the area file lists them.
RoomOrder == <<2201, 2202>>

(***************************************************************************)
(* Combat (mud-multi.py)                                                   *)
(***************************************************************************)
PlayerEnt(o) == [t |-> "player", id |-> o]

MobEnt(m) == [t |-> "mob", id |-> m]

NoEnt == [t |-> "none", id |-> 0]

get_target_name(w, e) ==
  IF e.t = "player" THEN w.pl[e.id].name ELSE MobData[e.id].short_desc

\* Python's order on the strings of the model (code points: capitals first).
StrOrd(n) ==
  CASE n = "Rogue" -> 1
    [] n = "a goblin" -> 2
    [] n = "a guard" -> 3
    [] n = "bob" -> 4
    [] n = "rogue" -> 5

\* tuple(sorted([a, b]))
SortedPair(a, b) == IF StrOrd(a) <= StrOrd(b) THEN <<a, b>> ELSE <<b, a>>

\* `a in b` on the lower-cased strings of the model.
IsSubstring(a, b) ==
  \/ a = b
  \/ a = "goblin" /\ b = "a goblin"
  \/ a = "guard" /\ b = "a guard"

EntHp(w, e) == IF e.t = "player" THEN w.pl[e.id].hp ELSE w.mobs[e.id].hp

EntLevel(w, e) == IF e.t = "player" THEN w.pl[e.id].level ELSE MobData[e.id].level

EntAttackPower(e) ==
  IF e.t = "player" THEN calculate_attack_power ELSE MobData[e.id].attack_power

EntDefense(e) ==
  IF e.t = "player" THEN calculate_defense ELSE MobData[e.id].defense

EntRoom(w, e) ==
  IF e.t = "player" THEN w.pl[e.id].current_room ELSE w.mobs[e.id].current_room

SetHp(w, e, hp) ==
  IF e.t = "player" THEN [w EXCEPT !.pl[e.id].hp = hp]
  ELSE [w EXCEPT !.mobs[e.id].hp = hp]

start_combat(w, attacker, defender) ==
  LET pair == SortedPair(get_target_name(w, attacker), get_target_name(w, defender))
  IN  IF Contains(w.combatants, pair) THEN w
      ELSE [w EXCEPT !.combatants = Append(@, pair)]

stop_combat(w, attacker, defender) ==
  LET pair == SortedPair(get_target_name(w, attacker), get_target_name(w, defender))
  IN  [w EXCEPT !.combatants = Remove(@, pair)]

in_combat(w, e) ==
  \E i \in 1..Len(w.combatants) :
    get_target_name(w, e) \in {w.combatants[i][1], w.combatants[i][2]}

check_level_up(w, o) ==
  IF w.pl[o].experience >= w.pl[o].level * 100
  THEN [w EXCEPT !.pl[o].level = @ + 1,
                 !.pl[o].max_hp = calculate_max_hp,
                 !.pl[o].hp = calculate_max_hp,
                 !.pl[o].max_mana = calculate_max_mana,
                 !.pl[o].mana = calculate_max_mana]
  ELSE w

\* [m for m in attacker.current_room.mobs if not m.is_npc and m.hp > 0]
HostileMobs(w, r) ==
  SelectSeq(w.rooms[r].mobs, LAMBDA m : ~MobData[m].is_npc /\ w.mobs[m].hp > 0)

handle_defeat(w, attacker, defender) ==
  LET w1 == stop_combat(w, attacker, defender)
  IN  IF defender.t = "player"
      THEN [w1 EXCEPT !.pl[defender.id].hp = w1.pl[defender.id].max_hp,
                      !.pl[defender.id].mana = w1.pl[defender.id].max_mana,
                      !.pl[defender.id].current_room = 2201]
      ELSE IF attacker.t = "player"
      THEN LET o == attacker.id
               m == defender.id
               w2 == [w1 EXCEPT !.pl[o].experience = @ + MobData[m].level * 20]
               w3 == [w2 EXCEPT !.rooms[w2.mobs[m].current_room].mobs = Remove(@, m)]
               w4 == check_level_up(w3, o)
               remaining_hostile_mobs == HostileMobs(w4, w4.pl[o].current_room)
           IN  IF remaining_hostile_mobs # <<>> /\ ~in_combat(w4, attacker)
               THEN start_combat(w4, attacker, MobEnt(remaining_hostile_mobs[1]))
               ELSE w4
      ELSE w1

Max(a, b) == IF a >= b THEN a ELSE b

Min(a, b) == IF a <= b THEN a ELSE b

\* The hit chance without the clamp.
hit_chance_unclamped(w, attacker, defender) ==
  85 + (EntLevel(w, attacker) - EntLevel(w, defender)) * 5

\* hit_chance = max(10, min(95, 85 + (attacker_level - defender_level) * 5))
hit_chance(w, attacker, defender) ==
  Max(10, Min(95, 85 + (EntLevel(w, attacker) - EntLevel(w, defender)) * 5))

crit_chance(w, attacker, defender) ==
  5 + Max(0, EntLevel(w, attacker) - EntLevel(w, defender))

\* The damage of a hit before its variance, from the draws after the hit
\* roll: r.below is how far the base damage roll fell below the top of its
\* range.
attack_damage(w, attacker, defender, r) ==
  LET attack_power == EntAttackPower(attacker)
      \* random.randint(attack_power // 2, attack_power + attack_power // 4)
      rolled == attack_power + attack_power \div 4 - r.below
      base_damage == IF r.crit <= crit_chance(w, attacker, defender)
                     THEN (rolled * 3) \div 2 ELSE rolled
  IN  Max(1, base_damage - EntDefense(defender))

\* The damage without the floors of 1.
final_damage_unclamped(w, attacker, defender, r) ==
  LET attack_power == EntAttackPower(attacker)
      rolled == attack_power + attack_power \div 4 - r.below
      base_damage == IF r.crit <= crit_chance(w, attacker, defender)
                     THEN (rolled * 3) \div 2 ELSE rolled
  IN  base_damage - EntDefense(defender) + r.variance

\* final_damage = max(1, damage + damage_variance)
final_damage(w, attacker, defender, r) ==
  LET damage == attack_damage(w, attacker, defender, r)
      damage_variance == IF damage > 4 THEN r.variance ELSE 0
  IN  Max(1, damage + damage_variance)

\* player_attack(attacker, defender) with the random draws r; every call is
\* noted in w.attacks with whether it brought the defender to hp <= 0 and
\* with the rooms the two entities were in.
player_attack(w, attacker, defender, r) ==
  IF r.hit > hit_chance(w, attacker, defender)
  THEN [w EXCEPT !.attacks = Append(@, [attacker |-> attacker, defender |-> defender,
                                        hit |-> FALSE, lethal |-> FALSE,
                                        rooms |-> <<EntRoom(w, attacker),
                                                    EntRoom(w, defender)>>])]
  ELSE LET hp == Max(0, EntHp(w, defender) - final_damage(w, attacker, defender, r))
           w1 == [SetHp(w, defender, hp) EXCEPT
                    !.attacks = Append(@, [attacker |-> attacker,
                                           defender |-> defender,
                                           hit |-> TRUE, lethal |-> hp <= 0,
                                           rooms |-> <<EntRoom(w, attacker),
                                                       EntRoom(w, defender)>>])]
       IN  IF hp <= 0 THEN handle_defeat(w1, attacker, defender) ELSE w1

\* The mobs of all rooms, room by room.
RECURSIVE MobsFrom(_, _)
MobsFrom(w, i) ==
  IF i > Len(RoomOrder) THEN <<>>
  ELSE w.rooms[RoomOrder[i]].mobs \o MobsFrom(w, i + 1)

\* mob.short_desc.lower() == name_lower or
\* any(name_lower in kw.lower() for kw in mob.keywords)
MobAnswersTo(m, name_lower) ==
  \/ MobData[m].short_desc = name_lower
  \/ \E kw \in MobData[m].keywords : IsSubstring(name_lower, kw)

find_entity_globally(w, name) ==
  LET name_lower == Lower(name)
      ks == {k \in DOMAIN w.players : Lower(w.pl[w.players[k]].name) = name_lower}
      ms == SelectSeq(MobsFrom(w, 1), LAMBDA m : MobAnswersTo(m, name_lower))
  IN  IF ks # {} THEN PlayerEnt(w.players[CHOOSE k \in ks : TRUE])
      ELSE IF ms # <<>> THEN MobEnt(ms[1])
      ELSE NoEnt

\* One pair of combat_round's loop; d holds the draws of the two attacks.
\* The result is the world and whether the pair goes to to_remove.
RoundPair(w, pair, d) ==
  LET ent1 == find_entity_globally(w, pair[1])
      ent2 == find_entity_globally(w, pair[2])
  IN  IF ent1 = NoEnt \/ ent2 = NoEnt THEN [w |-> w, drop |-> TRUE]
      ELSE IF EntHp(w, ent1) <= 0 \/ EntHp(w, ent2) <= 0 THEN [w |-> w, drop |-> TRUE]
      ELSE LET w1 == player_attack(w, ent1, ent2, d[1])
           IN  IF EntHp(w1, ent2) <= 0 THEN [w |-> w1, drop |-> TRUE]
               ELSE LET w2 == player_attack(w1, ent2, ent1, d[2])
                    IN  [w |-> w2, drop |-> EntHp(w2, ent1) <= 0]

\* for pair in list(combatants.keys()): ...   from the i-th pair of the
\* snapshot on; to_remove is deleted from combatants at the end.
RECURSIVE RoundFrom(_, _, _, _, _)
RoundFrom(w, pairs, i, to_remove, draws) ==
  IF i > Len(pairs)
  THEN [w EXCEPT !.combatants =
          SelectSeq(@, LAMBDA p : ~Contains(to_remove, p))]
  ELSE LET res == RoundPair(w, pairs[i], draws[i])
       IN  RoundFrom(res.w, pairs, i + 1,
                     IF res.drop THEN Append(to_remove, pairs[i]) ELSE to_remove,
                     draws)

combat_round(w, draws) == RoundFrom(w, w.combatants, 1, <<>>, draws)

\* find_target_in_room_by_index(room, target_name, 1)
find_target_in_room_by_index(w, room, target_name) ==
  LET ks == {k \in DOMAIN w.players :
               /\ w.pl[w.players[k]].current_room = room
               /\ IsSubstring(target_name, Lower(w.pl[w.players[k]].name))}
      ms == SelectSeq(w.rooms[room].mobs,
                      LAMBDA m : \/ IsSubstring(target_name, MobData[m].short_desc)
                                 \/ \E kw \in MobData[m].keywords :
                                      IsSubstring(target_name, kw))
  IN  IF ks # {} THEN PlayerEnt(w.players[CHOOSE k \in ks : TRUE])
      ELSE IF ms # <<>> THEN MobEnt(ms[1])
      ELSE NoEnt

\* process_player_command, command.startswith('attack') with a target word.
\* if not in_combat(player) and not in_combat(target)
AttackTest(w, player, target) == ~in_combat(w, player) /\ ~in_combat(w, target)

\* The attack command from start_combat on, with the outcome of its test.
AttackFrom(w, o, target, test, d) ==
  LET player == PlayerEnt(o)
      w1 == IF test THEN start_combat(w, player, target) ELSE w
      w2 == player_attack(w1, player, target, d[1])
  IN  IF target.t = "mob" /\ EntHp(w2, target) > 0
      THEN player_attack(w2, target, player, d[2])
      ELSE w2

AttackCommand(w, o, name, d) ==
  LET player == PlayerEnt(o)
      target == find_target_in_room_by_index(w, w.pl[o].current_room, name)
  IN  IF target = NoEnt THEN w
      ELSE AttackFrom(w, o, target, AttackTest(w, player, target), d)

(***************************************************************************)
(* Spells (mud-multi.py): the two offensive entries of the spell table.    *)
(***************************************************************************)
SpellNames == {"fireball", "chain lightning"}

SpellData ==
  [n \in SpellNames |->
     IF n = "fireball"
     THEN [spell_type |-> "offensive", requires_target |-> TRUE, mana_cost |-> 40,
           damage_multiplier |-> 22, base_damage |-> <<10, 10>>]
     ELSE [spell_type |-> "area_offensive", requires_target |-> FALSE,
           mana_cost |-> 40, damage_multiplier |-> 22, base_damage |-> <<10, 10>>]]

\* caster.intelligence * damage_multiplier + random.randint(base_damage[0], base_damage[1])
SpellDamage(spell, roll) == Intelligence * spell.damage_multiplier + roll

\* Spell._cast_offensive: the target's hp is lowered; the messages that follow
\* read target.short_desc, an attribute a Player does not have.
cast_offensive(w, caster, spell, target, roll) ==
  IF target = NoEnt THEN [w |-> w, result |-> "False"]
  ELSE LET hp == Max(0, EntHp(w, target) - SpellDamage(spell, roll))
       IN  [w |-> SetHp(w, target, hp),
            result |-> IF target.t = "player" THEN "raise" ELSE "True"]

\* for target in targets: target.hp = max(0, target.hp - damage); the
\* targets at hp <= 0 are collected in defeated_targets.
RECURSIVE HitTargets(_, _, _, _, _)
HitTargets(w, targets, i, damage, defeated_targets) ==
  IF i > Len(targets) THEN [w |-> w, defeated_targets |-> defeated_targets]
  ELSE LET hp == Max(0, EntHp(w, targets[i]) - damage)
       IN  HitTargets(SetHp(w, targets[i], hp), targets, i + 1, damage,
                      IF hp <= 0 THEN Append(defeated_targets, targets[i])
                      ELSE defeated_targets)

\* for mob in mobs_to_remove: room.mobs.remove(mob)
RECURSIVE RemoveMobs(_, _, _, _)
RemoveMobs(w, room, mobs_to_remove, i) ==
  IF i > Len(mobs_to_remove) THEN w
  ELSE RemoveMobs([w EXCEPT !.rooms[room].mobs = Remove(@, mobs_to_remove[i].id)],
                  room, mobs_to_remove, i + 1)

\* for target in players_to_handle: hp and mana to their maxima, out of the
\* caster's room list, into room 2201 and its list.
RECURSIVE HandlePlayers(_, _, _, _)
HandlePlayers(w, room, players_to_handle, i) ==
  IF i > Len(players_to_handle) THEN w
  ELSE LET o == players_to_handle[i].id
           w1 == [w EXCEPT !.pl[o].hp = w.pl[o].max_hp,
                           !.pl[o].mana = w.pl[o].max_mana]
           w2 == IF Contains(w1.rooms[room].players, o)
                 THEN [w1 EXCEPT !.rooms[room].players = Remove(@, o)]
                 ELSE w1
           w3 == [w2 EXCEPT !.pl[o].current_room = 2201,
                            !.rooms[2201].players = Append(@, o)]
       IN  HandlePlayers(w3, room, players_to_handle, i + 1)

ToEnts(seq, t) == [i \in 1..Len(seq) |-> [t |-> t, id |-> seq[i]]]

\* Spell._cast_area_offensive
cast_area_offensive(w, caster, spell, roll) ==
  LET room == w.pl[caster].current_room
      targets ==
        ToEnts(SelectSeq(w.rooms[room].mobs, LAMBDA m : ~MobData[m].is_npc), "mob")
        \o ToEnts(SelectSeq(w.rooms[room].players, LAMBDA p : p # caster), "player")
  IN  IF targets = <<>> THEN [w |-> w, result |-> "False"]
      ELSE LET hit == HitTargets(w, targets, 1, SpellDamage(spell, roll), <<>>)
               mobs_to_remove ==
                 SelectSeq(hit.defeated_targets,
                           LAMBDA e : e.t = "mob" /\ Contains(w.rooms[room].mobs, e.id))
               players_to_handle ==
                 SelectSeq(hit.defeated_targets, LAMBDA e : e.t = "player")
               w1 == RemoveMobs(hit.w, room, mobs_to_remove, 1)
           IN  [w |-> HandlePlayers(w1, room, players_to_handle, 1),
                result |-> "True"]

\* cast_spell: the target of a spell that requires one.
SpellTarget(w, player, target_name) ==
  LET room == w.pl[player].current_room
      ms == SelectSeq(w.rooms[room].mobs,
                      LAMBDA m : Lower(target_name) \in MobData[m].keywords)
      ps == SelectSeq(w.rooms[room].players,
                      LAMBDA p : p # player /\ Lower(w.pl[p].name) = Lower(target_name))
  IN  IF ms # <<>> THEN MobEnt(ms[1])
      ELSE IF ps # <<>> THEN PlayerEnt(ps[1])
      ELSE NoEnt

\* A cast_spell that takes the mana before it looks for the target.
cast_spell_paying_first(w, player, spell_name, target_name, roll) ==
  LET spell == SpellData[spell_name]
      target == IF spell.requires_target THEN SpellTarget(w, player, target_name)
                ELSE NoEnt
      w1 == [w EXCEPT !.pl[player].mana = @ - spell.mana_cost]
  IN  IF w.pl[player].mana < spell.mana_cost THEN w
      ELSE IF spell.requires_target /\ target = NoEnt THEN w1
      ELSE LET cast == IF spell.spell_type = "offensive"
                       THEN cast_offensive(w1, player, spell, target, roll)
                       ELSE cast_area_offensive(w1, player, spell, roll)
           IN  IF cast.result = "True" THEN cast.w
               ELSE [cast.w EXCEPT !.pl[player].mana = @ + spell.mana_cost]

\* cast_spell(player, spell_name, target_name)
cast_spell(w, player, spell_name, target_name, roll) ==
  LET spell == SpellData[spell_name]
      target == IF spell.requires_target THEN SpellTarget(w, player, target_name)
                ELSE NoEnt
  IN  IF w.pl[player].mana < spell.mana_cost THEN w
      ELSE IF spell.requires_target /\ target = NoEnt THEN w
      ELSE LET w1 == [w EXCEPT !.pl[player].mana = @ - spell.mana_cost]
               cast == IF spell.spell_type = "offensive"
                       THEN cast_offensive(w1, player, spell, target, roll)
                       ELSE cast_area_offensive(w1, player, spell, roll)
           IN  IF cast.result = "True" THEN cast.w
               ELSE [cast.w EXCEPT !.pl[player].mana = @ + spell.mana_cost]

(***************************************************************************)
(* Connections                                                             *)
(***************************************************************************)
\* A Player object no dict, list or thread refers to any more is gone.
Referenced(w, ss, ll, mm, o) ==
  \/ \E k \in DOMAIN w.players : w.players[k] = o
  \/ \E r \in Rooms : Contains(w.rooms[r].players, o)
  \/ \E s \in Sessions : ss[s].player = o \/ ll[s].player = o
  \/ o \in mm.players_list
  \/ Contains(w.net.bc.players_list, o)
  \/ Contains(w.net.cmd.players_list, o)

\* The room lists the model follows: a longer list only repeats stale entries.
MaxRoomList == 2

Bounded == \A r \in Rooms : Len(rooms[r].players) <= MaxRoomList

\* The shared state after a step of a thread.
PutStep(w, ss, ll, mm) ==
  /\ Bounded
  /\ players' = w.players
  /\ pl' = [o \in ObjIds |->
              IF Referenced(w, ss, ll, mm, o) THEN w.pl[o] ELSE BlankPlayer]
  /\ rooms' = w.rooms
  /\ mobs' = w.mobs
  /\ combatants' = w.combatants
  /\ profiles' = w.profiles
  /\ net' = w.net
  /\ sess' = ss
  /\ local' = ll
  /\ main' = mm

\* The shared state after a handler that runs as one step.
Put(w, ss) ==
  /\ Bounded
  /\ players' = w.players
  /\ pl' = [o \in ObjIds |->
              IF Referenced(w, ss, local, main, o) THEN w.pl[o] ELSE BlankPlayer]
  /\ rooms' = w.rooms
  /\ mobs' = w.mobs
  /\ combatants' = w.combatants
  /\ profiles' = w.profiles
  /\ net' = w.net
  /\ sess' = ss

\* The locals of a handler thread between two commands.
NoLocal == [name |-> "", player |-> NoObj, room |-> 0]

\* The main thread while run_server accepts connections.
Serving == [pc |-> "serving", players_list |-> {}]

NewSession == [kind |-> "none", pc |-> "new", player |-> NoObj]

ClosedSession == [kind |-> "none", pc |-> "closed", player |-> NoObj]

\* The world after the loaders and process_resets have run.
\* Every socket is open, nothing was sent, no broadcast (bc) and no combat
\* round (ct) is under way, no session is inside 'chat' or 'say' (cmd), no
\* command handler has raised (errors). In pymud-multi.py no thread holds
\* combatants_lock or active_events_lock, active_events is empty and neither
\* registry has been touched (access). No connection has talked to an NPC
\* (talk: how the dialogue service answered its last request).
NoNet ==
  [broken |-> [o \in ObjIds |-> FALSE],
   failed |-> [o \in ObjIds |-> FALSE],
   inbox |-> [o \in ObjIds |-> 0],
   bc |-> [pc |-> "idle", players_list |-> <<>>, i |-> 0],
   ct |-> [pc |-> "idle", size |-> 0],
   cmd |-> [pc |-> "idle", by |-> 0, size |-> 0, players_list |-> <<>>,
            i |-> 0, room |-> 0],
   combatants_lock |-> {}, active_events_lock |-> {},
   active_events |-> [r \in Rooms |-> [type |-> "none", destination |-> 0,
                                        end_time |-> FALSE, expired |-> FALSE]],
   access |-> [registry |-> "none", by |-> 0, held |-> FALSE],
   rounds |-> 0,
   talk |-> [s \in Sessions |-> "none"],
   fight |-> [s \in Sessions |-> [target |-> NoEnt, test |-> FALSE]],
   npc_tick |-> [pc |-> "idle", npc |-> 0, room_vnum |-> 0],
   summon |-> [s \in Sessions |-> 0],
   errors |-> {}]

LoadedWorld ==
  [players |-> EmptyDict,
   pl |-> [o \in ObjIds |-> BlankPlayer],
   rooms |-> [r \in Rooms |->
                [players |-> <<>>,
                 mobs |-> SelectSeq(<<1, 2>>, LAMBDA m : MobData[m].room_vnum = r),
                 exits |-> [d \in DOMAIN Exits[r] |->
                              ExitData(Exits[r][d].to_room_vnum,
                                       Exits[r][d].door_flags, "")]]],
   mobs |-> [m \in MobIds |->
               [hp |-> MobData[m].max_hp, current_room |-> MobData[m].room_vnum]],
   combatants |-> <<>>,
   profiles |-> [n \in Names |-> NoProfile],
   net |-> NoNet,
   raised |-> FALSE,
   attacks |-> <<>>]

Init ==
  /\ players = LoadedWorld.players
  /\ pl = LoadedWorld.pl
  /\ rooms = LoadedWorld.rooms
  /\ mobs = LoadedWorld.mobs
  /\ combatants = LoadedWorld.combatants
  /\ profiles = LoadedWorld.profiles
  /\ portal_connections = EmptyDict
  /\ web_player_sessions = EmptyDict
  /\ sess = [s \in Sessions |-> NewSession]
  /\ reply = [s \in Sessions |-> "none"]
  /\ nextObj = 1
  /\ server_running = TRUE
  /\ players_lock = {}
  /\ local = [s \in Sessions |-> NoLocal]
  /\ main = Serving
  /\ net = NoNet

\* player_login: one pass of the prompt loop.
TelnetLogin(s, name) ==
  /\ server_running
  /\ sess[s].pc = "new"
  /\ sess[s].kind \in {"none", "telnet"}
  /\ nextObj \in ObjIds
  /\ IF NameInUse(World, name)
     THEN /\ reply' = [reply EXCEPT ![s] = "in_use"]
          /\ Put(World, [sess EXCEPT ![s].kind = "telnet"])
          /\ UNCHANGED nextObj
     ELSE /\ reply' = [reply EXCEPT ![s] = "welcome"]
          /\ Put(LoginSection(World, nextObj, name),
                 [sess EXCEPT ![s] = [kind |-> "telnet", pc |-> "playing",
                                      player |-> nextObj]])
          /\ nextObj' = nextObj + 1
  /\ UNCHANGED <<portal_connections, web_player_sessions, server_running, threads>>

\* integrated_web.handle_login: the 'login' event of a connection, which a
\* client may send again after it has logged in.
WebLogin(s, name) ==
  /\ server_running
  /\ sess[s].pc \in {"new", "playing"}
  /\ sess[s].kind \in {"none", "web"}
  /\ sess[s].kind = "none" => sess[s].pc = "new"
  /\ nextObj \in ObjIds
  /\ IF NameInUse(World, name)
     THEN /\ reply' = [reply EXCEPT ![s] = "in_use"]
          /\ Put(World, [sess EXCEPT ![s].kind = "web"])
          /\ UNCHANGED <<nextObj, web_player_sessions>>
     ELSE /\ reply' = [reply EXCEPT ![s] = "welcome"]
          /\ Put(LoginSection(World, nextObj, name),
                 [sess EXCEPT ![s] = [kind |-> "web", pc |-> "playing",
                                      player |-> NoObj]])
          /\ web_player_sessions' = DictPut(web_player_sessions, s, name)
          /\ nextObj' = nextObj + 1
  /\ UNCHANGED <<portal_connections, server_running, threads>>

\* The Player a command of connection s acts on: the handler thread's local
\* `player` (telnet), players[web_player_sessions[sid]] (web).
Actor(s) ==
  IF sess[s].kind = "telnet" THEN sess[s].player
  ELSE players[web_player_sessions[s]]

\* handle_client reads a line (telnet); handle_command finds the player (web).
CanCommand(s) ==
  /\ sess[s].pc = "playing"
  /\ IF sess[s].kind = "telnet"
     THEN pl[sess[s].player].connected
     ELSE /\ s \in DOMAIN web_player_sessions
          /\ web_player_sessions[s] \in DOMAIN players

Command(s, w) ==
  /\ Put(w, sess)
  /\ UNCHANGED <<portal_connections, web_player_sessions, reply, nextObj,
                 server_running, threads>>

MoveCmd(s, direction) ==
  /\ CanCommand(s)
  /\ Command(s, Move(World, Actor(s), direction))

TeleportCmd(s, room_vnum) ==
  /\ CanCommand(s)
  /\ Command(s, Teleport(World, Actor(s), room_vnum))

PortalCmd(s) ==
  /\ CanCommand(s)
  /\ Command(s, EnterPortal(World, Actor(s), portal_connections))

\* handle_client from the end of its loop: the finally block, then the
\* statements after it.
ClientExit(w, o) == ClientTail(FinallyBlock(w, o))

\* command == 'quit' on the pull transport: process_player_command returns
\* True, the loop breaks and handle_client runs to its end.
TelnetQuit(s) ==
  /\ CanCommand(s)
  /\ sess[s].kind = "telnet"
  /\ Put(ClientExit(QuitCommand(World, Actor(s)), Actor(s)),
         [sess EXCEPT ![s] = ClosedSession])
  /\ UNCHANGED <<portal_connections, web_player_sessions, reply, nextObj,
                 server_running, threads>>

\* receive_line returns None: the loop breaks without a quit.
TelnetConnectionLost(s) ==
  /\ sess[s].pc = "playing"
  /\ sess[s].kind = "telnet"
  /\ Put(ClientExit(World, sess[s].player), [sess EXCEPT ![s] = ClosedSession])
  /\ UNCHANGED <<portal_connections, web_player_sessions, reply, nextObj,
                 server_running, threads>>

\* command == 'quit' on the push transport: handle_command calls
\* handle_web_disconnect when process_player_command returns True.
WebQuit(s) ==
  /\ CanCommand(s)
  /\ sess[s].kind = "web"
  /\ LET d == handle_web_disconnect(QuitCommand(World, Actor(s)),
                                    web_player_sessions, s)
     IN  /\ Put(d.w, [sess EXCEPT ![s].pc = "new"])
         /\ web_player_sessions' = d.m
  /\ UNCHANGED <<portal_connections, reply, nextObj, server_running, threads>>

\* The socket.io 'disconnect' event of a connection.
WebDisconnectEvent(s) ==
  /\ sess[s].kind = "web"
  /\ sess[s].pc \in {"new", "playing"}
  /\ LET d == handle_web_disconnect(World, web_player_sessions, s)
     IN  /\ Put(d.w, [sess EXCEPT ![s] = ClosedSession])
         /\ web_player_sessions' = d.m
  /\ UNCHANGED <<portal_connections, reply, nextObj, server_running, threads>>

\* run_server accepts a connection / a browser connects.
Connect(s) ==
  /\ server_running
  /\ sess[s].pc = "closed"
  /\ nextObj \in ObjIds
  /\ sess' = [sess EXCEPT ![s] = NewSession]
  /\ reply' = [reply EXCEPT ![s] = "none"]
  /\ UNCHANGED <<players, pl, rooms, mobs, combatants, profiles,
                 portal_connections, web_player_sessions, nextObj,
                 server_running, threads, net>>

\* create_portal_storm, one portal pair.
CreatePortalStorm(room1, room2) ==
  /\ server_running
  /\ room1 # room2
  /\ room1 \notin DOMAIN portal_connections
  /\ room2 \notin DOMAIN portal_connections
  /\ portal_connections' = DictPut(DictPut(portal_connections, room1, room2), room2, room1)
  /\ UNCHANGED <<players, pl, rooms, mobs, combatants, profiles,
                 web_player_sessions, sess, reply, nextObj, server_running,
                 threads, net>>

\* SIGINT: signal_handler calls shutdown_game.
Shutdown ==
  /\ server_running
  /\ Put(shutdown_game(World), sess)
  /\ server_running' = FALSE
  /\ UNCHANGED <<portal_connections, web_player_sessions, reply, nextObj, threads>>

Next ==
  \/ \E s \in Sessions, name \in Names : TelnetLogin(s, name)
  \/ \E s \in Sessions, name \in Names : WebLogin(s, name)
  \/ \E s \in Sessions, d \in Directions : MoveCmd(s, d)
  \/ \E s \in Sessions, r \in Rooms : TeleportCmd(s, r)
  \/ \E s \in Sessions : PortalCmd(s)
  \/ \E s \in Sessions : TelnetQuit(s)
  \/ \E s \in Sessions : TelnetConnectionLost(s)
  \/ \E s \in Sessions : WebQuit(s)
  \/ \E s \in Sessions : WebDisconnectEvent(s)
  \/ \E s \in Sessions : Connect(s)
  \/ \E r1, r2 \in Rooms : CreatePortalStorm(r1, r2)
  \/ Shutdown

Spec == Init /\ [][Next]_vars

(***************************************************************************)
(* Combat and spells between two logged-in players and the goblin          *)
(***************************************************************************)
\* The rolls followed: a hit or a miss, no critical, the top of the damage
\* range, no variance.
HitRolls == {1, 100}

SampleDraws ==
  {[hit |-> h, crit |-> 100, below |-> 0, variance |-> 0] : h \in HitRolls}

\* Words a player types as the target of attack and of cast.
AttackWords == {"goblin"}

CastWords == {"goblin", "bob"}

\* Two players have logged in: connection 1 by telnet, connection 2 by web.
InitCombat ==
  \E n \in {"Rogue", "rogue"} :
    LET w == LoginSection(LoginSection(LoadedWorld, 1, n), 2, "bob")
    IN  /\ players = w.players
        /\ pl = w.pl
        /\ rooms = w.rooms
        /\ mobs = w.mobs
        /\ combatants = w.combatants
        /\ profiles = w.profiles
        /\ portal_connections = EmptyDict
        /\ web_player_sessions = (2 :> "bob")
        /\ sess = (1 :> [kind |-> "telnet", pc |-> "playing", player |-> 1]) @@
                  (2 :> [kind |-> "web", pc |-> "playing", player |-> NoObj])
        /\ reply = [s \in Sessions |-> "welcome"]
        /\ nextObj = 3
        /\ server_running = TRUE
  /\ players_lock = {}
  /\ local = [s \in Sessions |-> NoLocal]
  /\ main = Serving
  /\ net = NoNet

AttackCmd(s, name, d) ==
  /\ CanCommand(s)
  /\ Command(s, AttackCommand(World, Actor(s), name, d))

CastCmd(s, spell_name, target_name) ==
  /\ CanCommand(s)
  /\ \E roll \in SpellData[spell_name].base_damage[1]..SpellData[spell_name].base_damage[2] :
       Command(s, cast_spell(World, Actor(s), spell_name, target_name, roll))

\* combat_loop: one combat_round.
CombatRound(draws) ==
  /\ combatants # <<>>
  /\ Put(combat_round(World, draws), sess)
  /\ UNCHANGED <<portal_connections, web_player_sessions, reply, nextObj,
                 server_running, threads>>

TickDraws == [1..Len(combatants) -> SampleDraws \X SampleDraws]

NextCombat ==
  \/ \E s \in Sessions, d \in Directions : MoveCmd(s, d)
  \/ \E s \in Sessions, n \in AttackWords, d \in SampleDraws \X SampleDraws :
       AttackCmd(s, n, d)
  \/ \E s \in Sessions, sp \in SpellNames, n \in CastWords : CastCmd(s, sp, n)
  \/ \E draws \in TickDraws : CombatRound(draws)
  \/ \E s \in Sessions : WebDisconnectEvent(s)

SpecCombat == InitCombat /\ [][NextCombat]_vars

(***************************************************************************)
(* The handler threads statement by statement: players_lock is taken and   *)
(* released, and the threads interleave between the steps.                 *)
(***************************************************************************)
At(s, pc) == [sess EXCEPT ![s].pc = pc]

\* `with players_lock:` of player_login (kind "telnet") and of handle_login
\* (kind "web") is entered with the name the client sent.
CLoginAcquire(s, kind, name) ==
  /\ server_running
  /\ sess[s].pc = "new"
  /\ sess[s].kind \in {"none", kind}
  /\ nextObj \in ObjIds
  /\ players_lock = {}
  /\ players_lock' = {s}
  /\ PutStep(World, [sess EXCEPT ![s].kind = kind, ![s].pc = "login_check"],
             [local EXCEPT ![s].name = name], main)
  /\ UNCHANGED <<portal_connections, web_player_sessions, reply, nextObj,
                 server_running>>

\* if name_lower in [existing_name.lower() ...]: "already in use", and the
\* lock is left.
CLoginCheck(s) ==
  /\ sess[s].pc = "login_check"
  /\ IF NameInUse(World, local[s].name)
     THEN /\ reply' = [reply EXCEPT ![s] = "in_use"]
          /\ players_lock' = {}
          /\ PutStep(World, At(s, "new"), local, main)
     ELSE /\ PutStep(World, At(s, "login_insert"), local, main)
          /\ UNCHANGED <<reply, players_lock>>
  /\ UNCHANGED <<portal_connections, web_player_sessions, nextObj, server_running>>

\* The Player is made, its profile loaded, players[name] = p, and the lock
\* is left.
CLoginInsert(s) ==
  /\ sess[s].pc = "login_insert"
  /\ players_lock' = {}
  /\ reply' = [reply EXCEPT ![s] = "welcome"]
  /\ nextObj' = nextObj + 1
  /\ IF sess[s].kind = "telnet"
     THEN PutStep(CreateAndRegister(World, nextObj, local[s].name),
                  [sess EXCEPT ![s].pc = "playing", ![s].player = nextObj],
                  [local EXCEPT ![s] = NoLocal], main)
     ELSE PutStep(CreateAndRegister(World, nextObj, local[s].name),
                  At(s, "web_bind"), local, main)
  /\ UNCHANGED <<portal_connections, web_player_sessions, server_running>>

\* handle_login after the lock: web_player_sessions[session_id] = player_name
CWebBind(s) ==
  /\ sess[s].pc = "web_bind"
  /\ web_player_sessions' = DictPut(web_player_sessions, s, local[s].name)
  /\ PutStep(World, At(s, "playing"), [local EXCEPT ![s] = NoLocal], main)
  /\ UNCHANGED <<portal_connections, reply, nextObj, server_running, players_lock>>

ThreadStep(s, w, pc, ll) ==
  /\ PutStep(w, At(s, pc), ll, main)
  /\ UNCHANGED <<portal_connections, web_player_sessions, reply, nextObj,
                 server_running, players_lock>>

\* Player.move up to old_room.players.remove(self)
CMoveRemove(s, direction) ==
  /\ CanCommand(s)
  /\ MoveTarget(World, Actor(s), direction) # 0
  /\ ThreadStep(s, LeaveRoom(World, Actor(s)), "move_set",
                [local EXCEPT ![s] = [name |-> "", player |-> Actor(s),
                                      room |-> MoveTarget(World, Actor(s), direction)]])

\* the portal command up to old_room.players.remove(player)
CPortalRemove(s) ==
  /\ CanCommand(s)
  /\ PortalTarget(World, Actor(s), portal_connections) # 0
  /\ ThreadStep(s, LeaveRoom(World, Actor(s)), "portal_broadcast",
                [local EXCEPT ![s] = [name |-> "", player |-> Actor(s),
                                      room |-> PortalTarget(World, Actor(s),
                                                            portal_connections)]])

\* broadcast_room(old_room, ...): players_lock is taken for the snapshot.
CPortalBroadcast(s) ==
  /\ sess[s].pc = "portal_broadcast"
  /\ players_lock = {}
  /\ ThreadStep(s, World, "move_set", local)

\* current_room = rooms[vnum]   (Player.move and the portal command)
CMoveSet(s) ==
  /\ sess[s].pc = "move_set"
  /\ ThreadStep(s, SetRoom(World, local[s].player, local[s].room), "move_append", local)

\* current_room.players.append(player)
CMoveAppend(s) ==
  /\ sess[s].pc = "move_append"
  /\ ThreadStep(s, EnterRoom(World, local[s].player), "playing",
                [local EXCEPT ![s] = NoLocal])

\* quit: the farewell is sent, the profile saved, the connection closed, and
\* `with players_lock:` is entered.
CQuitAcquire(s) ==
  /\ CanCommand(s)
  /\ players_lock = {}
  /\ players_lock' = {s}
  /\ PutStep(QuitSaveClose(World, Actor(s)), At(s, "quit_drop"),
             [local EXCEPT ![s].player = Actor(s)], main)
  /\ UNCHANGED <<portal_connections, web_player_sessions, reply, nextObj,
                 server_running>>

\* quit: the body of the critical section; process_player_command returns
\* True, which ends handle_client's loop or calls handle_web_disconnect.
CQuitDrop(s) ==
  /\ sess[s].pc = "quit_drop"
  /\ players_lock' = {}
  /\ PutStep(QuitDropSection(World, local[s].player),
             At(s, IF sess[s].kind = "telnet" THEN "finally" ELSE "web_disconnect"),
             local, main)
  /\ UNCHANGED <<portal_connections, web_player_sessions, reply, nextObj,
                 server_running>>

\* receive_line returns None: handle_client's loop ends.
CConnectionLost(s) ==
  /\ sess[s].pc = "playing"
  /\ sess[s].kind = "telnet"
  /\ ThreadStep(s, World, "finally", [local EXCEPT ![s].player = sess[s].player])

\* handle_client, finally: `with players_lock:` is entered.
CFinallyAcquire(s) ==
  /\ sess[s].pc = "finally"
  /\ players_lock = {}
  /\ players_lock' = {s}
  /\ PutStep(World, At(s, "finally_drop"), local, main)
  /\ UNCHANGED <<portal_connections, web_player_sessions, reply, nextObj,
                 server_running>>

CFinallyDrop(s) ==
  /\ sess[s].pc = "finally_drop"
  /\ players_lock' = {}
  /\ PutStep(FinallyBlock(World, local[s].player), At(s, "tail"), local, main)
  /\ UNCHANGED <<portal_connections, web_player_sessions, reply, nextObj,
                 server_running>>

\* handle_client after the finally block: no lock is taken.
CTail(s) ==
  /\ sess[s].pc = "tail"
  /\ PutStep(ClientTail(World), [sess EXCEPT ![s] = ClosedSession],
             [local EXCEPT ![s] = NoLocal], main)
  /\ UNCHANGED <<portal_connections, web_player_sessions, reply, nextObj,
                 server_running, players_lock>>

\* handle_web_disconnect: called by handle_command after quit, and by the
\* 'disconnect' event.  A connection with no entry in web_player_sessions
\* is done at once.
CWebDisconnect(s) ==
  /\ sess[s].kind = "web"
  /\ sess[s].pc \in {"new", "playing", "web_disconnect"}
  /\ IF s \in DOMAIN web_player_sessions
     THEN /\ players_lock = {}
          /\ players_lock' = {s}
          /\ PutStep(World, At(s, "web_drop"),
                     [local EXCEPT ![s] = [name |-> web_player_sessions[s],
                                           player |-> NoObj, room |-> 0]], main)
     ELSE /\ PutStep(World, [sess EXCEPT ![s] = ClosedSession],
                     [local EXCEPT ![s] = NoLocal], main)
          /\ UNCHANGED players_lock
  /\ UNCHANGED <<portal_connections, web_player_sessions, reply, nextObj,
                 server_running>>

CWebDrop(s) ==
  /\ sess[s].pc = "web_drop"
  /\ players_lock' = {}
  /\ PutStep(WebDropSection(World, local[s].name), At(s, "web_unmap"), local, main)
  /\ UNCHANGED <<portal_connections, web_player_sessions, reply, nextObj,
                 server_running>>

\* del web_player_sessions[session_id]
CWebUnmap(s) ==
  /\ sess[s].pc = "web_unmap"
  /\ web_player_sessions' = DictDel(web_player_sessions, s)
  /\ PutStep(World, [sess EXCEPT ![s] = ClosedSession],
             [local EXCEPT ![s] = NoLocal], main)
  /\ UNCHANGED <<portal_connections, reply, nextObj, server_running, players_lock>>

\* shutdown_game: with players_lock: players_list = list(players.items())
CShutdownSnapshot ==
  /\ main.pc = "serving"
  /\ players_lock = {}
  /\ PutStep(World, sess, local,
             [pc |-> "closing", players_list |-> PlayersList(World)])
  /\ UNCHANGED <<portal_connections, web_player_sessions, reply, nextObj,
                 server_running, players_lock>>

\* shutdown_game: the loop over players_list.
CShutdownClose ==
  /\ main.pc = "closing"
  /\ PutStep(SaveAndClose(World, main.players_list), sess, local,
             [pc |-> "clearing", players_list |-> {}])
  /\ UNCHANGED <<portal_connections, web_player_sessions, reply, nextObj,
                 server_running, players_lock>>

\* shutdown_game: players.clear(); server_running = False
CShutdownClear ==
  /\ main.pc = "clearing"
  /\ PutStep([World EXCEPT !.players = EmptyDict], sess, local,
             [pc |-> "done", players_list |-> {}])
  /\ server_running' = FALSE
  /\ UNCHANGED <<portal_connections, web_player_sessions, reply, nextObj,
                 players_lock>>

Kinds == {"telnet", "web"}

NextConc ==
  \/ \E s \in Sessions, kind \in Kinds, name \in Names : CLoginAcquire(s, kind, name)
  \/ \E s \in Sessions : CLoginCheck(s)
  \/ \E s \in Sessions : CLoginInsert(s)
  \/ \E s \in Sessions : CWebBind(s)
  \/ \E s \in Sessions, d \in Directions : CMoveRemove(s, d)
  \/ \E s \in Sessions : CPortalRemove(s)
  \/ \E s \in Sessions : CPortalBroadcast(s)
  \/ \E s \in Sessions : CMoveSet(s)
  \/ \E s \in Sessions : CMoveAppend(s)
  \/ \E s \in Sessions : CQuitAcquire(s)
  \/ \E s \in Sessions : CQuitDrop(s)
  \/ \E s \in Sessions : CConnectionLost(s)
  \/ \E s \in Sessions : CFinallyAcquire(s)
  \/ \E s \in Sessions : CFinallyDrop(s)
  \/ \E s \in Sessions : CTail(s)
  \/ \E s \in Sessions : CWebDisconnect(s)
  \/ \E s \in Sessions : CWebDrop(s)
  \/ \E s \in Sessions : CWebUnmap(s)
  \/ \E r1, r2 \in Rooms : CreatePortalStorm(r1, r2)
  \/ CShutdownSnapshot
  \/ CShutdownClose
  \/ CShutdownClear

SpecConc == Init /\ [][NextConc]_vars

(***************************************************************************)
(* pymud-multi.py with simple_web.py: login and teardown                   *)
(***************************************************************************)
\* pymud-multi.py Player.__init__: self.vitality
PyVitality == 5

\* Player.__init__ of pymud-multi.py: no room list is touched.
PyPlayerInit(w, o, name, current_room_vnum) ==
  [w EXCEPT
     !.pl[o] = [name |-> name, current_room |-> current_room_vnum,
                hp |-> PyVitality * 10, max_hp |-> PyVitality * 10,
                mana |-> calculate_max_mana, max_mana |-> calculate_max_mana,
                level |-> 1, experience |-> 0, inventory |-> <<>>,
                connected |-> TRUE]]

\* save_player_profile of pymud-multi.py: the file is named by name.lower().
py_save_player_profile(w, o) ==
  [w EXCEPT !.profiles[Lower(w.pl[o].name)] = to_dict(w.pl[o])]

\* The hit points a profile is loaded with, as they were saved.
loaded_hp_as_saved(hp, max_hp) == hp

\* if player.hp <= 0: player.hp = player.max_hp
\* if player.hp > player.max_hp: player.hp = player.max_hp
loaded_hp(hp, max_hp) == IF hp <= 0 \/ hp > max_hp THEN max_hp ELSE hp

\* load_player_profile of pymud-multi.py: the saved room is entered through
\* the room lists.
py_load_player_profile(w, o) ==
  LET data == w.profiles[Lower(w.pl[o].name)]
  IN  IF ~data.exists THEN w
      ELSE LET w1 == [w EXCEPT
                        !.pl[o] = [@ EXCEPT !.hp = loaded_hp(data.hp, data.max_hp),
                                            !.max_hp = data.max_hp,
                                            !.mana = data.mana,
                                            !.max_mana = data.max_mana,
                                            !.level = data.level,
                                            !.experience = data.experience,
                                            !.inventory =
                                               ObjectsFrom(data.inventory, 1)]]
           IN  IF data.current_room_vnum \notin Rooms THEN w1
               ELSE LET w2 == SetRoom(Detach(w1, o), o, data.current_room_vnum)
                    IN  IF Contains(w2.rooms[data.current_room_vnum].players, o)
                        THEN w2 ELSE EnterRoom(w2, o)

\* player_login of pymud-multi.py: a name that is a key of players gets the
\* registered Player, with the new connection's handler.
py_player_login(w, o, name) ==
  IF name \in DOMAIN w.players
  THEN LET p == w.players[name]
       IN  [w EXCEPT !.pl[p].connected = TRUE,
                     !.pl[p].hp = IF @ <= 0 THEN w.pl[p].max_hp ELSE @]
  ELSE LET w1 == PyPlayerInit(w, o, name, 2201)
       IN  py_load_player_profile([w1 EXCEPT !.players = DictPut(@, name, o)], o)

\* handle_client of pymud-multi.py, the finally block.
PyFinallyBlock(w, o) ==
  IF w.pl[o].name \in DOMAIN w.players
  THEN close_connection(
         DelPlayer(Detach(py_save_player_profile(w, o), o), w.pl[o].name), o)
  ELSE w

\* process_player_command of pymud-multi.py, command == 'quit'
PyQuitCommand(w, o) ==
  LET w1 == close_connection(w, o)
  IN  IF w1.pl[o].name \in DOMAIN w1.players
      THEN DelPlayer(w1, w1.pl[o].name)
      ELSE w1

\* simple_web.handle_login, the body of `with mud_multi.players_lock:`
PyWebLoginSection(w, o, name) ==
  IF NameInUse(w, name) THEN w
  ELSE LET w1 == py_load_player_profile(PyPlayerInit(w, o, name, 2201), o)
       IN  [w1 EXCEPT !.players = DictPut(@, name, o)]

\* simple_web.handle_web_disconnect
py_handle_web_disconnect(w, m, sid) ==
  IF sid \in DOMAIN m
  THEN [w |-> IF m[sid] \in DOMAIN w.players
              THEN LET player == w.players[m[sid]]
                   IN  DelPlayer(Detach(py_save_player_profile(w, player), player),
                                 m[sid])
              ELSE w,
        m |-> DictDel(m, sid)]
  ELSE [w |-> w, m |-> m]

\* Player.move of pymud-multi.py: current_room is assigned.
PyMove(w, o, direction) ==
  IF MoveTarget(w, o, direction) = 0 THEN w
  ELSE SetRoom(w, o, MoveTarget(w, o, direction))

PyTelnetLogin(s, name) ==
  /\ server_running
  /\ sess[s].pc = "new"
  /\ sess[s].kind \in {"none", "telnet"}
  /\ nextObj \in ObjIds
  /\ reply' = [reply EXCEPT ![s] = IF name \in DOMAIN players
                                   THEN "welcome_back" ELSE "welcome"]
  /\ Put(py_player_login(World, nextObj, name),
         [sess EXCEPT ![s] = [kind |-> "telnet", pc |-> "playing",
                              player |-> IF name \in DOMAIN players
                                         THEN players[name] ELSE nextObj]])
  /\ nextObj' = IF name \in DOMAIN players THEN nextObj ELSE nextObj + 1
  /\ UNCHANGED <<portal_connections, web_player_sessions, server_running, threads>>

PyWebLogin(s, name) ==
  /\ server_running
  /\ sess[s].pc \in {"new", "playing"}
  /\ sess[s].kind \in {"none", "web"}
  /\ sess[s].kind = "none" => sess[s].pc = "new"
  /\ nextObj \in ObjIds
  /\ IF NameInUse(World, name)
     THEN /\ reply' = [reply EXCEPT ![s] = "in_use"]
          /\ Put(World, [sess EXCEPT ![s].kind = "web"])
          /\ UNCHANGED <<nextObj, web_player_sessions>>
     ELSE /\ reply' = [reply EXCEPT ![s] = "welcome"]
          /\ Put(PyWebLoginSection(World, nextObj, name),
                 [sess EXCEPT ![s] = [kind |-> "web", pc |-> "playing",
                                      player |-> NoObj]])
          /\ web_player_sessions' = DictPut(web_player_sessions, s, name)
          /\ nextObj' = nextObj + 1
  /\ UNCHANGED <<portal_connections, server_running, threads>>

PyMoveCmd(s, direction) ==
  /\ CanCommand(s)
  /\ Command(s, PyMove(World, Actor(s), direction))

\* handle_client of pymud-multi.py leaves its loop: 'quit', 'exit' or 'bye'
\* was typed, the connection was lost, or the Player's handler is closed.
PyTelnetEnd(s) ==
  /\ sess[s].pc = "playing"
  /\ sess[s].kind = "telnet"
  /\ Put(PyFinallyBlock(World, sess[s].player), [sess EXCEPT ![s] = ClosedSession])
  /\ UNCHANGED <<portal_connections, web_player_sessions, reply, nextObj,
                 server_running, threads>>

\* 'quit' sent as a web command: process_player_command returns None, so
\* handle_command does not call handle_web_disconnect.
PyWebQuit(s) ==
  /\ CanCommand(s)
  /\ sess[s].kind = "web"
  /\ Command(s, PyQuitCommand(World, Actor(s)))

PyWebDisconnectEvent(s) ==
  /\ sess[s].kind = "web"
  /\ sess[s].pc \in {"new", "playing"}
  /\ LET d == py_handle_web_disconnect(World, web_player_sessions, s)
     IN  /\ Put(d.w, [sess EXCEPT ![s] = ClosedSession])
         /\ web_player_sessions' = d.m
  /\ UNCHANGED <<portal_connections, reply, nextObj, server_running, threads>>

\* signal_handler of pymud-multi.py: every player is saved, none removed.
PyShutdown ==
  /\ server_running
  /\ Put([World EXCEPT
            !.profiles = [n \in DOMAIN @ |->
                            IF \E k \in DOMAIN players : Lower(k) = n
                            THEN to_dict(pl[players[CHOOSE k \in DOMAIN players :
                                                      Lower(k) = n]])
                            ELSE @[n]]], sess)
  /\ server_running' = FALSE
  /\ UNCHANGED <<portal_connections, web_player_sessions, reply, nextObj, threads>>

NextPy ==
  \/ \E s \in Sessions, name \in Names : PyTelnetLogin(s, name)
  \/ \E s \in Sessions, name \in Names : PyWebLogin(s, name)
  \/ \E s \in Sessions, d \in Directions : PyMoveCmd(s, d)
  \/ \E s \in Sessions : PyTelnetEnd(s)
  \/ \E s \in Sessions : PyWebQuit(s)
  \/ \E s \in Sessions : PyWebDisconnectEvent(s)
  \/ \E s \in Sessions : Connect(s)
  \/ PyShutdown

SpecPy == Init /\ [][NextPy]_vars

(***************************************************************************)
(* Properties of the session registry and the room lists                   *)
(***************************************************************************)
\* C2: every registered player is in the players list of exactly one room,
\* once, and that room is the player's current_room.
C2_RegisteredInCurrentRoomOnly ==
  \A k \in DOMAIN players :
    \A r \in Rooms :
      Count(rooms[r].players, players[k]) =
        IF r = pl[players[k]].current_room THEN 1 ELSE 0

SameRegistryAndRooms(a, b) == a.players = b.players /\ a.rooms = b.rooms

StalePair(w, pair) ==
  LET ent1 == find_entity_globally(w, pair[1])
      ent2 == find_entity_globally(w, pair[2])
  IN  \/ ent1 = NoEnt
      \/ ent2 = NoEnt
      \/ EntHp(w, ent1) <= 0
      \/ EntHp(w, ent2) <= 0
      \/ EntRoom(w, ent1) # EntRoom(w, ent2)

\* C5: a pair that is stale when a combat_round starts is not in combatants
\* when that combat_round ends, whatever the rolls.
C5_StalePairDroppedInOneTick ==
  \A draws \in TickDraws :
    \A i \in 1..Len(combatants) :
      StalePair(World, combatants[i]) =>
        ~Contains(combat_round(World, draws).combatants, combatants[i])

\* C6: in a combat_round, an attack that brings the defender to hp <= 0 drops
\* the pair and is not followed by an attack of that defender on its attacker.
C6_NoRetaliationByDefeated ==
  \A draws \in TickDraws :
    LET w == combat_round(World, draws)
    IN  \A j \in 1..Len(w.attacks) :
          w.attacks[j].lethal =>
            /\ ~Contains(w.combatants,
                         SortedPair(get_target_name(w, w.attacks[j].attacker),
                                    get_target_name(w, w.attacks[j].defender)))
            /\ j < Len(w.attacks) =>
                 ~ /\ w.attacks[j + 1].attacker = w.attacks[j].defender
                   /\ w.attacks[j + 1].defender = w.attacks[j].attacker

\* C10: no operation leaves a registered player at hp <= 0: the player it
\* brought there has been given max_hp again.
C10_NoPlayerLeftDefeated ==
  \A k \in DOMAIN players : pl[players[k]].hp > 0

(***************************************************************************)
(* Properties of the interleaved handler threads                           *)
(***************************************************************************)
\* C1: no two keys of players are equal ignoring case, and a login that has
\* passed the name test still finds its name free when it inserts: of the
\* logins with one name, one inserts and the others are told "in use".
C1_OneLoginPerName ==
  /\ \A k1, k2 \in DOMAIN players : Lower(k1) = Lower(k2) => k1 = k2
  /\ \A s \in Sessions :
       sess[s].pc = "login_insert" => ~NameInUse(World, local[s].name)

\* "Rogue" is registered for one connection, and another connection that
\* sent "rogue" has been told the name is in use.
C1_Witness ==
  \E s1, s2 \in Sessions :
    /\ s1 # s2
    /\ reply[s1] = "welcome"
    /\ "Rogue" \in DOMAIN players
    /\ local[s2].name = "rogue"
    /\ reply[s2] = "in_use"
    /\ sess[s2].pc = "new"

\* cast_spell and Spell._cast_area_offensive read current_room.players
\* without taking a lock: a connection between two commands can do so now.
ReaderEnabled(s) == CanCommand(s)

\* C3: while a move or a portal step is between its list removal and its
\* list append, no other thread can read the room lists: a reader finds the
\* moving player in the list of its current_room.
C3_MoveAtomicToReaders ==
  \A t, s \in Sessions :
    (/\ t # s
     /\ sess[t].pc \in {"portal_broadcast", "move_set", "move_append"}
     /\ ReaderEnabled(s))
    => Contains(rooms[pl[local[t].player].current_room].players, local[t].player)

\* C4: a step that takes a name out of players is the body of a
\* players_lock section (the lock is held before and released by the step)
\* and leaves the removed Player out of the list of its room.
C4_RemovalLockedAndDetached ==
  [][\A k \in DOMAIN players :
       k \notin DOMAIN players' =>
         /\ players_lock # {}
         /\ players_lock' = {}
         /\ ~Contains(rooms'[pl[players[k]].current_room].players, players[k])]_vars

(***************************************************************************)
(* Properties of pymud-multi.py's login and teardown                       *)
(***************************************************************************)
\* C7: no two keys of players are equal ignoring case, and no Player is the
\* `player` of two connections at once.
C7_OnePlayerPerNameAndConnection ==
  /\ \A k1, k2 \in DOMAIN players : Lower(k1) = Lower(k2) => k1 = k2
  /\ \A s1, s2 \in Sessions :
       (/\ s1 # s2
        /\ sess[s1].pc = "playing" /\ sess[s1].kind = "telnet"
        /\ sess[s2].pc = "playing" /\ sess[s2].kind = "telnet")
       => sess[s1].player # sess[s2].player

\* C8: a step that takes a name out of players leaves the profile of that
\* name equal to the removed Player's state: it was saved in the teardown.
C8_SavedBeforeRemoval ==
  [][\A k \in DOMAIN players :
       k \notin DOMAIN players' =>
         profiles'[Lower(k)] = to_dict(pl[players[k]])]_vars

(***************************************************************************)
(* Defeat of a non-player entity                                           *)
(***************************************************************************)
\* C11: once an operation is complete no entity with hp <= 0 remains in any
\* room's mobs list.
C11_NoDefeatedMobInRoom ==
  \A r \in Rooms : \A i \in 1..Len(rooms[r].mobs) : mobs[rooms[r].mobs[i]].hp > 0

(***************************************************************************)
(* player_attack over attacker and defender levels and every draw          *)
(***************************************************************************)
\* Levels the two players start the exchange with; the goblin's is 5.
AttackLevels == {1, 20}

\* Health the players start the exchange with.
AttackHps == {2, calculate_max_hp}

\* The health lost by the two players together.
Wounds ==
  LET lost(o) == IF pl[o].hp \in AttackHps THEN 0 ELSE pl[o].max_hp - pl[o].hp
  IN  lost(1) + lost(2)

MaxWounds == 1

\* random.randint(1, 100): the ends and the two sides of the chance.
PercentDraws(chance) == {1, chance, chance + 1, 100}

\* random.randint(1, 100) <= crit_chance: the two sides of the chance.
CritDraws(chance) == {chance, chance + 1}

\* random.randint(attack_power // 2, attack_power + attack_power // 4) as the
\* distance from the top of the range.
BelowWidth(attacker) ==
  LET attack_power == EntAttackPower(attacker)
  IN  attack_power + attack_power \div 4 - attack_power \div 2

\* The two values at each end of that range.
BelowDraws(attacker) ==
  {0, 1, BelowWidth(attacker) - 1, BelowWidth(attacker)}

\* random.randint(-damage//4, damage//4) if damage > 4 else 0
\* The ends of the range, the value next to its lower end, and zero.
VarianceDraws(damage) ==
  IF damage > 4
  THEN {(0 - damage) \div 4, (0 - damage) \div 4 + 1, 0, damage \div 4}
  ELSE {0}

\* The draws of one player_attack(attacker, defender) in world w.
AttackDraws(w, attacker, defender) ==
  UNION {UNION {{[hit |-> h, crit |-> c, below |-> b, variance |-> v] :
                   v \in VarianceDraws(attack_damage(w, attacker, defender,
                           [hit |-> h, crit |-> c, below |-> b, variance |-> 0]))} :
                  c \in CritDraws(crit_chance(w, attacker, defender)),
                  b \in BelowDraws(attacker)} :
           h \in PercentDraws(hit_chance(w, attacker, defender))}

\* The draws followed by the exchange: a miss, the weakest and the strongest hit.
StrikeDraws(attacker) ==
  {[hit |-> h, crit |-> 100, below |-> b, variance |-> 0] :
     h \in {1, 100}, b \in {0, BelowWidth(attacker)}}

\* The entities standing in a room, and so open to an attack.
Standing(w) ==
  {PlayerEnt(o) : o \in {o \in ObjIds : w.pl[o].name \in DOMAIN w.players}}
  \cup {MobEnt(m) : m \in {m \in MobIds :
                            Contains(w.rooms[w.mobs[m].current_room].mobs, m)}}

\* The two players have logged in and walked north to the goblin.
InitAttack ==
  \E l1, l2 \in AttackLevels, h1, h2 \in AttackHps :
    LET w0 == LoginSection(LoginSection(LoadedWorld, 1, "Rogue"), 2, "bob")
        w1 == Move(Move(w0, 1, "north"), 2, "north")
        w == [w1 EXCEPT !.pl[1].level = l1, !.pl[2].level = l2,
                        !.pl[1].hp = h1, !.pl[2].hp = h2]
    IN  /\ players = w.players
        /\ pl = w.pl
        /\ rooms = w.rooms
        /\ mobs = w.mobs
        /\ combatants = w.combatants
        /\ profiles = w.profiles
        /\ portal_connections = EmptyDict
        /\ web_player_sessions = (2 :> "bob")
        /\ sess = (1 :> [kind |-> "telnet", pc |-> "playing", player |-> 1]) @@
                  (2 :> [kind |-> "web", pc |-> "playing", player |-> NoObj])
        /\ reply = [s \in Sessions |-> "welcome"]
        /\ nextObj = 3
        /\ server_running = TRUE
  /\ players_lock = {}
  /\ local = [s \in Sessions |-> NoLocal]
  /\ main = Serving
  /\ net = NoNet

\* One call of player_attack(attacker, defender).
Strike(attacker, defender, r) ==
  /\ Wounds <= MaxWounds
  /\ Put(player_attack(World, attacker, defender, r), sess)
  /\ UNCHANGED <<portal_connections, web_player_sessions, reply, nextObj,
                 server_running, threads>>

\* An attacker and a defender found in one room.
Opponents(w) ==
  {pair \in Standing(w) \X Standing(w) :
     pair[1] # pair[2] /\ EntRoom(w, pair[1]) = EntRoom(w, pair[2])}

NextAttack ==
  \E attacker \in Standing(World), defender \in Standing(World) :
    /\ <<attacker, defender>> \in Opponents(World)
    /\ \E r \in StrikeDraws(attacker) :
         Strike(attacker, defender, r)

SpecAttack == InitAttack /\ [][NextAttack]_vars

\* C12: on a hit the damage is at least 1 and is what the defender's health
\* loses (a defender brought to 0 is handed to handle_defeat); on a miss the
\* health of every entity is as before.
C12_HitDamagesMissDoesNot ==
  \A attacker \in Standing(World), defender \in Standing(World) :
    <<attacker, defender>> \in Opponents(World) =>
      \A r \in AttackDraws(World, attacker, defender) :
        LET after == player_attack(World, attacker, defender, r)
            final == final_damage(World, attacker, defender, r)
        IN  IF r.hit > hit_chance(World, attacker, defender)
            THEN after.pl = pl /\ after.mobs = mobs
            ELSE /\ final >= 1
                 /\ IF EntHp(World, defender) - final > 0
                    THEN EntHp(after, defender) = EntHp(World, defender) - final
                    ELSE after.attacks[Len(after.attacks)].lethal

\* A hit that did not kill took health from a defender, and a miss was
\* possible, in one state.
C12_Witness ==
  \E attacker \in Standing(World), defender \in Standing(World) :
    /\ <<attacker, defender>> \in Opponents(World)
    /\ EntHp(World, defender) < calculate_max_hp
    /\ EntHp(World, defender) > 2
    /\ defender.t = "player"
    /\ \E r \in AttackDraws(World, attacker, defender) :
         r.hit > hit_chance(World, attacker, defender)
    /\ \E r \in AttackDraws(World, attacker, defender) :
         /\ r.hit <= hit_chance(World, attacker, defender)
         /\ final_damage(World, attacker, defender, r) = 1


\* C13: the hit chance is 85 + 5 x (attacker level - defender level) kept
\* within 10..95, and a draw from 1..100 is a miss exactly when it is above
\* the hit chance; a miss changes nothing.
C13_HitChanceClampedAndDecides ==
  \A attacker \in Standing(World), defender \in Standing(World) :
    <<attacker, defender>> \in Opponents(World) =>
      LET raw == 85 + 5 * (EntLevel(World, attacker) - EntLevel(World, defender))
          chance == IF raw < 10 THEN 10 ELSE IF raw > 95 THEN 95 ELSE raw
      IN  /\ hit_chance(World, attacker, defender) = chance
          /\ \A h \in 1..100 :
               LET after == player_attack(World, attacker, defender,
                              [hit |-> h, crit |-> 100, below |-> 0, variance |-> 0])
               IN  IF h > chance
                   THEN /\ ~after.attacks[1].hit
                        /\ after.pl = pl /\ after.mobs = mobs /\ after.rooms = rooms
                        /\ after.combatants = combatants
                   ELSE /\ after.attacks[1].hit
                        /\ after.pl # pl \/ after.mobs # mobs

\* After a strike, one pair is below the lower end of the clamp, one above
\* its upper end and one within it.
C13_Witness ==
  /\ mobs[1].hp < MobData[1].max_hp
  /\ \E p \in Opponents(World) : hit_chance_unclamped(World, p[1], p[2]) < 10
  /\ \E p \in Opponents(World) : hit_chance_unclamped(World, p[1], p[2]) > 95
  /\ \E p \in Opponents(World) : hit_chance_unclamped(World, p[1], p[2]) \in 11..94

(***************************************************************************)
(* Doors (mud-multi.py)                                                    *)
(***************************************************************************)
\* open_door(player, direction)
open_door(w, o, direction) ==
  LET r == w.pl[o].current_room
  IN  IF direction \notin DOMAIN w.rooms[r].exits THEN w
      ELSE LET exit_data == w.rooms[r].exits[direction]
           IN  IF exit_data.door_flags \in {1, 3}
                  /\ ~exit_data.is_open /\ ~exit_data.is_locked
               THEN [w EXCEPT !.rooms[r].exits[direction].is_open = TRUE]
               ELSE w

\* close_door(player, direction)
close_door(w, o, direction) ==
  LET r == w.pl[o].current_room
  IN  IF direction \notin DOMAIN w.rooms[r].exits THEN w
      ELSE LET exit_data == w.rooms[r].exits[direction]
           IN  IF exit_data.door_flags \in {1, 3} /\ exit_data.is_open
               THEN [w EXCEPT !.rooms[r].exits[direction].is_open = FALSE]
               ELSE w

\* unlock_door_with_code(player, direction, code); unlock_door reads the code
\* from a telnet player and does the same.
unlock_door_with_code(w, o, direction, code) ==
  LET r == w.pl[o].current_room
  IN  IF direction \notin DOMAIN w.rooms[r].exits THEN w
      ELSE LET exit_data == w.rooms[r].exits[direction]
           IN  IF exit_data.is_locked /\ exit_data.secret_code # ""
                  /\ code = exit_data.secret_code
               THEN [w EXCEPT !.rooms[r].exits[direction].is_locked = FALSE]
               ELSE w

\* door_flags of the exit lines and the codes of the SECRET_CODE entries.
DoorFlags == {0, 1, 2, 3}

SecretCodes == {"", "1234"}

\* Codes a player types after `unlock <direction>`.
TypedCodes == {"1234", "0000"}

\* The world was loaded from an area file whose two exits have doors, and
\* one telnet player has logged in.
InitDoors ==
  \E f1, f2 \in DoorFlags, c1, c2 \in SecretCodes :
    LET w0 == [LoadedWorld EXCEPT
                 !.rooms[2201].exits.north = ExitData(2202, f1, c1),
                 !.rooms[2202].exits.south = ExitData(2201, f2, c2)]
        w == LoginSection(w0, 1, "Rogue")
    IN  /\ players = w.players
        /\ pl = w.pl
        /\ rooms = w.rooms
        /\ mobs = w.mobs
        /\ combatants = w.combatants
        /\ profiles = w.profiles
  /\ portal_connections = EmptyDict
  /\ web_player_sessions = EmptyDict
  /\ sess = (1 :> [kind |-> "telnet", pc |-> "playing", player |-> 1]) @@
            (2 :> NewSession)
  /\ reply = [s \in Sessions |-> IF s = 1 THEN "welcome" ELSE "none"]
  /\ nextObj = 2
  /\ server_running = TRUE
  /\ players_lock = {}
  /\ local = [s \in Sessions |-> NoLocal]
  /\ main = Serving
  /\ net = NoNet

OpenCmd(s, direction) ==
  /\ CanCommand(s)
  /\ Command(s, open_door(World, Actor(s), direction))

CloseCmd(s, direction) ==
  /\ CanCommand(s)
  /\ Command(s, close_door(World, Actor(s), direction))

UnlockCmd(s, direction, code) ==
  /\ CanCommand(s)
  /\ Command(s, unlock_door_with_code(World, Actor(s), direction, code))

NextDoors ==
  \/ \E s \in Sessions, d \in Directions : MoveCmd(s, d)
  \/ \E s \in Sessions, d \in Directions : OpenCmd(s, d)
  \/ \E s \in Sessions, d \in Directions : CloseCmd(s, d)
  \/ \E s \in Sessions, d \in Directions, code \in TypedCodes : UnlockCmd(s, d, code)

SpecDoors == InitDoors /\ [][NextDoors]_vars

\* The exit is a door (door_flags 1 or 3) that is closed or locked.
DoorShut(exit_data) ==
  exit_data.door_flags \in {1, 3} /\ (~exit_data.is_open \/ exit_data.is_locked)

\* C14: a move through an exit whose door is closed or locked changes
\* nothing: not the player's room, not a room list, not a door flag.
C14_ShutDoorStopsMove ==
  \A k \in DOMAIN players : \A d \in Directions :
    LET r == pl[players[k]].current_room
    IN  (d \in DOMAIN rooms[r].exits /\ DoorShut(rooms[r].exits[d]))
        => Move(World, players[k], d) = World

\* The player has passed the door of room 2201 and stands in room 2202 before
\* a door that is shut.
C14_Witness ==
  /\ "Rogue" \in DOMAIN players
  /\ pl[players["Rogue"]].current_room = 2202
  /\ rooms[2201].exits.north.door_flags = 3
  /\ DoorShut(rooms[2202].exits.south)

(***************************************************************************)
(* Sends and broadcasts of the combat ticker (mud-multi.py)                *)
(***************************************************************************)
\* The combat thread, as a holder of players_lock.
TickerThread == 0

\* Messages a connection is followed for.
MaxMessages == 2

\* The transport of a Player: a WebConnectionHandler has a session_id in
\* web_player_sessions, a TelnetConnectionHandler does not.
IsWebPlayer(w, o) ==
  \E sid \in DOMAIN web_player_sessions : web_player_sessions[sid] = w.pl[o].name

\* list(players.items()): the Players in the order of their insertion.
RECURSIVE ItemsFrom(_, _)
ItemsFrom(w, o) ==
  IF o \notin ObjIds THEN <<>>
  ELSE (IF \E k \in DOMAIN w.players : w.players[k] = o THEN <<o>> ELSE <<>>)
       \o ItemsFrom(w, o + 1)

\* The write of a message to the peer of o: it arrives, or it fails.
Deliver(w, o) ==
  IF w.net.broken[o]
  THEN [w EXCEPT !.net.failed[o] = TRUE]
  ELSE [w EXCEPT !.net.inbox[o] = @ + 1]

\* WebConnectionHandler.send_message: a failed emit sets self.connected = False.
WebSendMessage(w, o) ==
  IF ~w.pl[o].connected THEN w
  ELSE IF w.net.broken[o]
  THEN [Deliver(w, o) EXCEPT !.pl[o].connected = FALSE]
  ELSE Deliver(w, o)

\* TelnetConnectionHandler.send_message after its test of self.client_socket:
\* self.client_socket.sendall(...), with OSError and its subclasses caught.
\* A client_socket that close_connection has set to None since the test has
\* no sendall: the AttributeError is not caught.
TelnetSendall(w, o) ==
  IF ~w.pl[o].connected THEN [w EXCEPT !.raised = TRUE]
  ELSE Deliver(w, o)

\* The combat thread finds a pair and player_attack misses: the room of the
\* attacker is told. broadcast_room takes players_lock.
TBegin ==
  /\ net.bc.pc = "idle"
  /\ combatants # <<>>
  /\ players_lock = {}
  /\ \A o \in ObjIds : net.inbox[o] < MaxMessages
  /\ players_lock' = {TickerThread}
  /\ net' = [net EXCEPT !.bc.pc = "locked"]
  /\ UNCHANGED <<players, pl, rooms, mobs, combatants, profiles,
                 portal_connections, web_player_sessions, sess, reply, nextObj,
                 server_running, local, main>>

\* A `with players_lock:` that gives nothing back at its end.
ReleasedBy_keeping(lock, thread) == lock

\* The lock a thread gives back at the end of `with players_lock:`.
ReleasedBy(lock, thread) == lock \ {thread}

\* players_list = list(players.items()), and the end of the with block.
TSnapshot ==
  /\ net.bc.pc = "locked"
  /\ players_lock' = ReleasedBy(players_lock, TickerThread)
  /\ net' = [net EXCEPT !.bc = [pc |-> "check", i |-> 1,
                                players_list |-> ItemsFrom(World, 1)]]
  /\ UNCHANGED <<players, pl, rooms, mobs, combatants, profiles,
                 portal_connections, web_player_sessions, sess, reply, nextObj,
                 server_running, local, main>>

\* The room broadcast_room was called for: that of the first pair's player.
BroadcastRoom ==
  LET names == {combatants[1][1], combatants[1][2]} \cap DOMAIN players
  IN  IF names = {} THEN 0
      ELSE pl[players[CHOOSE k \in names : TRUE]].current_room

\* for p_name, p in players_list: if p.current_room == room: send_to_player(p,
\* message), up to the handler's test of its connection.
TCheck ==
  /\ net.bc.pc = "check"
  /\ LET i == net.bc.i
         p == net.bc.players_list[i]
     IN  IF i > Len(net.bc.players_list)
         THEN Put([World EXCEPT !.net.bc = NoNet.bc], sess)
         ELSE IF pl[p].current_room # BroadcastRoom \/ ~pl[p].connected
         THEN Put([World EXCEPT !.net.bc.i = i + 1], sess)
         ELSE IF IsWebPlayer(World, p)
         THEN Put([WebSendMessage(World, p) EXCEPT !.net.bc.i = i + 1], sess)
         ELSE Put([World EXCEPT !.net.bc.pc = "sendall"], sess)
  /\ UNCHANGED <<portal_connections, web_player_sessions, reply, nextObj,
                 server_running, threads>>

\* self.client_socket.sendall(message.encode('utf-8')); an exception that
\* leaves send_message leaves broadcast_room, player_attack, combat_round and
\* combat_loop: the thread ends.
TSendall ==
  /\ net.bc.pc = "sendall"
  /\ LET after == TelnetSendall(World, net.bc.players_list[net.bc.i])
     IN  IF after.raised
         THEN Put([World EXCEPT !.net.bc.pc = "dead"], sess)
         ELSE Put([after EXCEPT !.net.bc.pc = "check", !.net.bc.i = @ + 1], sess)
  /\ UNCHANGED <<portal_connections, web_player_sessions, reply, nextObj,
                 server_running, threads>>

\* The peer of a connection goes away: writes to it fail from now on.
PeerGone(s) ==
  /\ CanCommand(s)
  /\ ~net.broken[Actor(s)]
  /\ Put([World EXCEPT !.net.broken[Actor(s)] = TRUE], sess)
  /\ UNCHANGED <<portal_connections, web_player_sessions, reply, nextObj,
                 server_running, threads>>

\* 'quit' typed on telnet while no thread is inside players_lock.
QuitUnlocked(s) ==
  /\ players_lock = {}
  /\ TelnetQuit(s)

\* Rogue by telnet and bob by web have walked north; Rogue and the goblin fight.
InitSend ==
  LET w0 == LoginSection(LoginSection(LoadedWorld, 1, "Rogue"), 2, "bob")
      w1 == Move(Move(w0, 1, "north"), 2, "north")
      w == start_combat(w1, PlayerEnt(1), MobEnt(1))
  IN  /\ players = w.players
      /\ pl = w.pl
      /\ rooms = w.rooms
      /\ mobs = w.mobs
      /\ combatants = w.combatants
      /\ profiles = w.profiles
      /\ portal_connections = EmptyDict
      /\ web_player_sessions = (2 :> "bob")
      /\ sess = (1 :> [kind |-> "telnet", pc |-> "playing", player |-> 1]) @@
                (2 :> [kind |-> "web", pc |-> "playing", player |-> NoObj])
      /\ reply = [s \in Sessions |-> "welcome"]
      /\ nextObj = 3
      /\ server_running = TRUE
      /\ players_lock = {}
      /\ local = [s \in Sessions |-> NoLocal]
      /\ main = Serving
      /\ net = NoNet

NextSend ==
  \/ TBegin
  \/ TSnapshot
  \/ TCheck
  \/ TSendall
  \/ \E s \in Sessions : PeerGone(s)
  \/ \E s \in Sessions : QuitUnlocked(s)
  \/ \E s \in Sessions, d \in Directions : MoveCmd(s, d)

SpecSend == InitSend /\ [][NextSend]_vars

\* C15: no failure of a write ends the ticker that is broadcasting.
C15_TickerSurvivesSend == net.bc.pc # "dead"

\* C16: a connection to which a send has failed reports is_connected() =
\* False from then on.
C16_FailedSendMarksDead ==
  \A o \in ObjIds : net.failed[o] => ~pl[o].connected

(***************************************************************************)
(* An exception inside a command handler                                   *)
(***************************************************************************)
\* process_player_command raises an unexpected exception on telnet: the
\* try of handle_client encloses the whole loop, so the except prints and the
\* finally block runs.
TelnetHandlerRaises(s) ==
  /\ CanCommand(s)
  /\ sess[s].kind = "telnet"
  /\ Put([ClientExit(World, sess[s].player) EXCEPT !.net.errors = @ \cup {s}],
         [sess EXCEPT ![s] = ClosedSession])
  /\ UNCHANGED <<portal_connections, web_player_sessions, reply, nextObj,
                 server_running, threads>>

\* process_player_command raises inside handle_command on the web: the
\* except emits 'error' to the session and the handler returns.
WebHandlerRaises(s) ==
  /\ CanCommand(s)
  /\ sess[s].kind = "web"
  /\ Put([World EXCEPT !.net.errors = @ \cup {s}], sess)
  /\ reply' = [reply EXCEPT ![s] = "command_error"]
  /\ UNCHANGED <<portal_connections, web_player_sessions, nextObj,
                 server_running, threads>>

NextRaise ==
  \/ \E s \in Sessions, name \in Names : TelnetLogin(s, name)
  \/ \E s \in Sessions, name \in Names : WebLogin(s, name)
  \/ \E s \in Sessions, d \in Directions : MoveCmd(s, d)
  \/ \E s \in Sessions, r \in Rooms : TeleportCmd(s, r)
  \/ \E s \in Sessions : TelnetHandlerRaises(s)
  \/ \E s \in Sessions : WebHandlerRaises(s)

SpecRaise == Init /\ [][NextRaise]_vars

\* C17: a session whose command handler raised is still in its command
\* loop: it is playing and its player is registered.
C17_LoopContinuesAfterException ==
  \A s \in net.errors : sess[s].pc = "playing" /\ CanCommand(s)

(***************************************************************************)
(* The combat ticker beside logins and quits                               *)
(***************************************************************************)
\* combat_round reaches find_entity_globally: `for p_name, p in
\* players.items()` starts on the dict as it is now.
RBegin ==
  /\ net.ct.pc = "idle"
  /\ combatants # <<>>
  /\ net' = [net EXCEPT !.ct = [pc |-> "iterating",
                                size |-> Cardinality(DOMAIN players)]]
  /\ UNCHANGED <<players, pl, rooms, mobs, combatants, profiles,
                 portal_connections, web_player_sessions, sess, reply, nextObj,
                 server_running, threads>>

\* The iteration goes on: a dict whose size has changed raises RuntimeError,
\* which nothing between the loop and combat_loop catches; otherwise the round
\* is carried out.
REnd(draws) ==
  /\ net.ct.pc = "iterating"
  /\ IF Cardinality(DOMAIN players) # net.ct.size
     THEN Put([World EXCEPT !.net.ct.pc = "dead"], sess)
     ELSE Put([combat_round(World, draws) EXCEPT !.net.ct = NoNet.ct], sess)
  /\ UNCHANGED <<portal_connections, web_player_sessions, reply, nextObj,
                 server_running, threads>>

NextTick ==
  \/ RBegin
  \/ \E draws \in TickDraws : REnd(draws)
  \/ \E s \in Sessions : QuitUnlocked(s)
  \/ \E s \in Sessions : WebDisconnectEvent(s)
  \/ \E s \in Sessions, d \in Directions : MoveCmd(s, d)

SpecTick == InitSend /\ [][NextTick]_vars

\* C18: an exception inside one combat round does not end the combat
\* ticker.
C18_CombatTickerSurvives == net.ct.pc # "dead"


(***************************************************************************)
(* pymud-multi.py: 'chat' and 'say', statement by statement                *)
(***************************************************************************)
\* send_to_player of pymud-multi.py: the Player's handler sends if connected.
py_send_to_player(w, o) ==
  IF ~w.pl[o].connected THEN w
  ELSE IF IsWebPlayer(w, o) THEN WebSendMessage(w, o)
  ELSE Deliver(w, o)

\* The handler thread of a connection is between two commands.
BetweenCommands(s) == net.cmd.pc = "idle" \/ net.cmd.by # s

\* command.startswith('chat '): `with players_lock:` is entered and the
\* iteration over players.values() begins.
PyChatBegin(s) ==
  /\ CanCommand(s)
  /\ net.cmd.pc = "idle"
  /\ players_lock = {}
  /\ \A o \in ObjIds : net.inbox[o] < MaxMessages
  /\ players_lock' = {s}
  /\ net' = [net EXCEPT !.cmd = [NoNet.cmd EXCEPT !.pc = "chat", !.by = s, !.i = 1,
                                   !.size = Cardinality(DOMAIN players)]]
  /\ UNCHANGED <<players, pl, rooms, mobs, combatants, profiles,
                 portal_connections, web_player_sessions, sess, reply, nextObj,
                 server_running, local, main>>

\* for other_player in players.values(): send_to_player(other_player,
\* chat_message). A dict that changed size raises RuntimeError; the end of the
\* iteration or the exception leaves the with block.
PyChatSend ==
  /\ net.cmd.pc = "chat"
  /\ LET values == ItemsFrom(World, 1)
         i == net.cmd.i
     IN  IF Len(values) # net.cmd.size \/ i > Len(values)
         THEN /\ Put([World EXCEPT !.net.cmd = NoNet.cmd], sess)
              /\ players_lock' = ReleasedBy(players_lock, net.cmd.by)
         ELSE /\ Put([py_send_to_player(World, values[i]) EXCEPT !.net.cmd.i = i + 1],
                     sess)
              /\ UNCHANGED players_lock
  /\ UNCHANGED <<portal_connections, web_player_sessions, reply, nextObj,
                 server_running, local, main>>

\* command.startswith('say '), no chat session in the room: broadcast_room
\* enters `with players_lock:`.
PySayBegin(s) ==
  /\ CanCommand(s)
  /\ net.cmd.pc = "idle"
  /\ players_lock = {}
  /\ \A o \in ObjIds : net.inbox[o] < MaxMessages
  /\ players_lock' = {s}
  /\ net' = [net EXCEPT !.cmd = [NoNet.cmd EXCEPT !.pc = "say", !.by = s,
                                   !.room = pl[Actor(s)].current_room]]
  /\ UNCHANGED <<players, pl, rooms, mobs, combatants, profiles,
                 portal_connections, web_player_sessions, sess, reply, nextObj,
                 server_running, local, main>>

\* players_list = list(players.items()), and the end of the with block.
PySaySnapshot ==
  /\ net.cmd.pc = "say"
  /\ players_lock' = ReleasedBy(players_lock, net.cmd.by)
  /\ net' = [net EXCEPT !.cmd.pc = "say_send", !.cmd.i = 1,
                        !.cmd.players_list = ItemsFrom(World, 1)]
  /\ UNCHANGED <<players, pl, rooms, mobs, combatants, profiles,
                 portal_connections, web_player_sessions, sess, reply, nextObj,
                 server_running, local, main>>

\* for p_name, p in players_list: if p.current_room == room and p is not
\* exclude: send_to_player(p, message)
PySaySend ==
  /\ net.cmd.pc = "say_send"
  /\ LET i == net.cmd.i
         p == net.cmd.players_list[i]
     IN  IF i > Len(net.cmd.players_list)
         THEN Put([World EXCEPT !.net.cmd = NoNet.cmd], sess)
         ELSE IF pl[p].current_room # net.cmd.room
         THEN Put([World EXCEPT !.net.cmd.i = i + 1], sess)
         ELSE Put([py_send_to_player(World, p) EXCEPT !.net.cmd.i = i + 1], sess)
  /\ UNCHANGED <<portal_connections, web_player_sessions, reply, nextObj,
                 server_running, threads>>

PyMoveBetween(s, direction) ==
  /\ BetweenCommands(s)
  /\ PyMoveCmd(s, direction)

\* The handler thread of a telnet connection leaves its loop; its finally
\* block takes no lock.
PyTelnetEndBetween(s) ==
  /\ BetweenCommands(s)
  /\ PyTelnetEnd(s)

\* simple_web.handle_web_disconnect enters `with mud_multi.players_lock:`.
PyWebDisconnectUnlocked(s) ==
  /\ players_lock = {}
  /\ PyWebDisconnectEvent(s)

\* pymud-multi.py: Rogue by telnet and bob by web stand in the temple.
InitChat ==
  LET w == PyWebLoginSection(py_player_login(LoadedWorld, 1, "Rogue"), 2, "bob")
  IN  /\ players = w.players
      /\ pl = w.pl
      /\ rooms = w.rooms
      /\ mobs = w.mobs
      /\ combatants = w.combatants
      /\ profiles = w.profiles
      /\ portal_connections = EmptyDict
      /\ web_player_sessions = (2 :> "bob")
      /\ sess = (1 :> [kind |-> "telnet", pc |-> "playing", player |-> 1]) @@
                (2 :> [kind |-> "web", pc |-> "playing", player |-> NoObj])
      /\ reply = [s \in Sessions |-> "welcome"]
      /\ nextObj = 3
      /\ server_running = TRUE
      /\ players_lock = {}
      /\ local = [s \in Sessions |-> NoLocal]
      /\ main = Serving
      /\ net = NoNet

NextChat ==
  \/ \E s \in Sessions : PyChatBegin(s)
  \/ PyChatSend
  \/ \E s \in Sessions : PySayBegin(s)
  \/ PySaySnapshot
  \/ PySaySend
  \/ \E s \in Sessions : PeerGone(s)
  \/ \E s \in Sessions, d \in Directions : PyMoveBetween(s, d)
  \/ \E s \in Sessions : PyTelnetEndBetween(s)
  \/ \E s \in Sessions : PyWebDisconnectUnlocked(s)

SpecChat == InitChat /\ [][NextChat]_vars

\* C19: a message of a broadcast reaches a transport, or fails on one, only
\* in a step taken while no thread holds players_lock.
C19_NoSendUnderLock ==
  [][(net'.inbox # net.inbox \/ net'.failed # net.failed) => players_lock = {}]_vars


(***************************************************************************)
(* pymud-multi.py: combatants, active_events and their locks               *)
(***************************************************************************)
\* pymud-multi.py Player.__init__: self.strength, self.agility
PyStrength == 5

PyAgility == 5

\* attack_power and defense: Player.calculate_attack_power and
\* calculate_defense, Mobile.__init__ (level * 2).
PyEntAttackPower(e) ==
  IF e.t = "player" THEN PyStrength * 20 ELSE MobData[e.id].level * 2

PyEntDefense(e) ==
  IF e.t = "player" THEN (PyAgility * 3) \div 2 ELSE MobData[e.id].level * 2

\* The thread of world_events_loop.
EventsThread == "world_events"

\* Combat rounds the model follows.
MaxRounds == 1

\* A statement of `thread` reads or writes a registry: what is recorded is
\* whether the thread holds the lock declared for that registry.
Touch(w, registry, thread) ==
  [w EXCEPT !.net.access =
     [registry |-> registry, by |-> thread,
      held |-> thread \in (IF registry = "combatants"
                           THEN w.net.combatants_lock
                           ELSE w.net.active_events_lock)]]

\* find_target_in_room of pymud-multi.py
py_find_target_in_room(w, room, target_name) ==
  LET ks == {k \in DOMAIN w.players :
               /\ w.pl[w.players[k]].current_room = room
               /\ Lower(w.pl[w.players[k]].name) = target_name}
      ms == SelectSeq(w.rooms[room].mobs,
                      LAMBDA m : \E kw \in MobData[m].keywords :
                                   IsSubstring(target_name, kw))
  IN  IF ks # {} THEN PlayerEnt(w.players[CHOOSE k \in ks : TRUE])
      ELSE IF ms # <<>> THEN MobEnt(ms[1])
      ELSE NoEnt

\* find_any_entity_by_name(name, room)
find_any_entity_by_name(w, name, room) ==
  LET ks == {k \in DOMAIN w.players :
               /\ w.pl[w.players[k]].current_room = room
               /\ Lower(w.pl[w.players[k]].name) = Lower(name)}
      ms == SelectSeq(w.rooms[room].mobs,
                      LAMBDA m : MobData[m].short_desc = Lower(name))
  IN  IF ks # {} THEN PlayerEnt(w.players[CHOOSE k \in ks : TRUE])
      ELSE IF ms # <<>> THEN MobEnt(ms[1])
      ELSE NoEnt

\* find_combat_opponent(entity): the other name of the first pair that holds
\* the entity's name, looked up in the entity's room.
find_combat_opponent(w, e) ==
  LET n == get_target_name(w, e)
      own == SelectSeq(w.combatants, LAMBDA pair : n \in {pair[1], pair[2]})
  IN  IF own = <<>> THEN NoEnt
      ELSE find_any_entity_by_name(
             w, IF own[1][1] = n THEN own[1][2] ELSE own[1][1], EntRoom(w, e))

\* process_player_command, 'attack <target>': in_combat reads combatants,
\* start_combat writes it.
py_attack_command(w, thread, o, target_name) ==
  LET target == py_find_target_in_room(w, w.pl[o].current_room, target_name)
  IN  IF target = NoEnt THEN w
      ELSE IF in_combat(w, PlayerEnt(o)) THEN Touch(w, "combatants", thread)
      ELSE Touch(start_combat(w, PlayerEnt(o), target), "combatants", thread)

\* process_player_command, 'flee'
py_flee_command(w, thread, o) ==
  IF ~in_combat(w, PlayerEnt(o)) THEN Touch(w, "combatants", thread)
  ELSE LET opponent == find_combat_opponent(w, PlayerEnt(o))
       IN  IF opponent = NoEnt THEN Touch(w, "combatants", thread)
           ELSE Touch(stop_combat(w, PlayerEnt(o), opponent), "combatants", thread)

\* player_attack of pymud-multi.py; r.hit is the draw from 1..100, r.top
\* tells whether base_damage is drawn at attack_power or at 1.
py_player_attack(w, attacker, defender, r) ==
  IF r.hit > hit_chance(w, attacker, defender) THEN w
  ELSE LET base_damage == IF r.top THEN PyEntAttackPower(attacker) ELSE 1
           damage == Max(1, base_damage - PyEntDefense(defender))
           w1 == SetHp(w, defender, EntHp(w, defender) - damage)
       IN  IF EntHp(w1, defender) > 0 THEN w1
           ELSE LET w2 == stop_combat(w1, attacker, defender)
                    room == EntRoom(w2, attacker)
                IN  IF defender.t = "mob" /\ Contains(w2.rooms[room].mobs, defender.id)
                    THEN [w2 EXCEPT !.rooms[room].mobs = Remove(@, defender.id)]
                    ELSE w2

\* One pair of combat_round's loop in pymud-multi.py.
PyRoundPair(w, pair, d) ==
  LET ent1 == find_entity_globally(w, pair[1])
      ent2 == find_entity_globally(w, pair[2])
  IN  IF ent1 = NoEnt \/ ent2 = NoEnt THEN [w |-> w, drop |-> TRUE]
      ELSE IF EntRoom(w, ent1) # EntRoom(w, ent2) THEN [w |-> w, drop |-> TRUE]
      ELSE IF EntHp(w, ent1) <= 0 \/ EntHp(w, ent2) <= 0 THEN [w |-> w, drop |-> TRUE]
      ELSE LET w1 == py_player_attack(w, ent1, ent2, d[1])
           IN  IF EntHp(w1, ent2) <= 0 THEN [w |-> w1, drop |-> TRUE]
               ELSE LET w2 == py_player_attack(w1, ent2, ent1, d[2])
                    IN  [w |-> w2, drop |-> EntHp(w2, ent1) <= 0]

RECURSIVE PyRoundFrom(_, _, _, _, _)
PyRoundFrom(w, pairs, i, to_remove, draws) ==
  IF i > Len(pairs)
  THEN [w EXCEPT !.combatants =
          SelectSeq(@, LAMBDA p : ~Contains(to_remove, p))]
  ELSE LET res == PyRoundPair(w, pairs[i], draws[i])
       IN  PyRoundFrom(res.w, pairs, i + 1,
                       IF res.drop THEN Append(to_remove, pairs[i]) ELSE to_remove,
                       draws)

\* combat_round of pymud-multi.py, run by the combat thread.
py_combat_round(w, draws) ==
  Touch(PyRoundFrom(w, w.combatants, 1, <<>>, draws), "combatants", TickerThread)

\* The portals of active_events: room_vnum -> destination.
ActivePortals(w) ==
  [r \in {x \in Rooms : w.net.active_events[x].type = "portal"} |->
     w.net.active_events[r].destination]

\* create_portal_storm of pymud-multi.py, one portal pair.
py_create_portal_storm(w, portals, room1, room2) ==
  IF \/ w.net.active_events[room1].type # "none"
     \/ w.net.active_events[room2].type # "none"
  THEN [w |-> Touch(w, "active_events", EventsThread), portals |-> portals]
  ELSE [w |-> Touch([w EXCEPT
                       !.net.active_events[room1] =
                          [type |-> "portal", destination |-> room2,
                           end_time |-> TRUE, expired |-> FALSE],
                       !.net.active_events[room2] =
                          [type |-> "portal", destination |-> room1,
                           end_time |-> TRUE, expired |-> FALSE]],
                    "active_events", EventsThread),
        portals |-> DictPut(DictPut(portals, room1, room2), room2, room1)]

\* cleanup_expired_events: the events that have an 'end_time' which has passed
\* are deleted, and with a portal its two entries of portal_connections.
RECURSIVE CleanupFrom(_, _, _, _)
CleanupFrom(w, portals, expired_events, i) ==
  IF i > Len(expired_events) THEN [w |-> w, portals |-> portals]
  ELSE LET room_vnum == expired_events[i]
           event == w.net.active_events[room_vnum]
           w1 == [w EXCEPT !.net.active_events[room_vnum] =
                             NoNet.active_events[room_vnum]]
           p1 == IF event.type = "portal" /\ room_vnum \in DOMAIN portals
                 THEN DictDel(IF portals[room_vnum] \in DOMAIN portals
                              THEN DictDel(portals, portals[room_vnum])
                              ELSE portals,
                              room_vnum)
                 ELSE portals
       IN  CleanupFrom(w1, p1, expired_events, i + 1)

cleanup_expired_events(w, portals) ==
  LET expired_events == SelectSeq(RoomOrder,
                                  LAMBDA r : /\ w.net.active_events[r].type # "none"
                                             /\ w.net.active_events[r].end_time
                                             /\ w.net.active_events[r].expired)
      res == CleanupFrom(w, portals, expired_events, 1)
  IN  [w |-> Touch(res.w, "active_events", EventsThread), portals |-> res.portals]

\* enter_portal of pymud-multi.py
py_enter_portal(w, thread, o) ==
  LET dest == PortalTarget(w, o, ActivePortals(w))
      w1 == Touch(w, "active_events", thread)
  IN  IF dest = 0 THEN w1
      ELSE EnterRoom(SetRoom(LeaveRoom(w1, o), o, dest), o)

PyAttackCmd(s, target_name) ==
  /\ CanCommand(s)
  /\ Command(s, py_attack_command(World, s, Actor(s), target_name))

PyFleeCmd(s) ==
  /\ CanCommand(s)
  /\ Command(s, py_flee_command(World, s, Actor(s)))

\* The hit roll at both ends of its range, the damage roll at its top.
PyDraws == {[hit |-> h, top |-> TRUE] : h \in HitRolls}

PyTickDraws == [1..Len(combatants) -> PyDraws \X PyDraws]

\* combat_loop: `if combatants: combat_round()`
PyCombatRound(draws) ==
  /\ combatants # <<>>
  /\ net.rounds < MaxRounds
  /\ Put([py_combat_round(World, draws) EXCEPT !.net.rounds = @ + 1], sess)
  /\ UNCHANGED <<portal_connections, web_player_sessions, reply, nextObj,
                 server_running, threads>>

\* world_events_loop: trigger_random_event picks create_portal_storm.
PyCreatePortalStorm(room1, room2) ==
  /\ room1 # room2
  /\ LET res == py_create_portal_storm(World, portal_connections, room1, room2)
     IN  /\ Put(res.w, sess)
         /\ portal_connections' = res.portals
  /\ UNCHANGED <<web_player_sessions, reply, nextObj, server_running, threads>>

\* Time passes: the lifetime every event was created with is over.
PyEventsExpire ==
  /\ \E r \in Rooms : net.active_events[r].type # "none" /\ ~net.active_events[r].expired
  /\ Put([World EXCEPT !.net.active_events =
            [r \in Rooms |-> IF @[r].type = "none" THEN @[r]
                             ELSE [@[r] EXCEPT !.expired = TRUE]]], sess)
  /\ UNCHANGED <<portal_connections, web_player_sessions, reply, nextObj,
                 server_running, threads>>

\* world_events_loop: cleanup_expired_events()
PyCleanupExpired ==
  /\ LET res == cleanup_expired_events(World, portal_connections)
     IN  /\ Put(res.w, sess)
         /\ portal_connections' = res.portals
  /\ UNCHANGED <<web_player_sessions, reply, nextObj, server_running, threads>>

\* 'enter portal'
PyEnterPortalCmd(s) ==
  /\ CanCommand(s)
  /\ Command(s, py_enter_portal(World, s, Actor(s)))

\* pymud-multi.py: Rogue by telnet and bob by web stand in the temple; the
\* goblin, a level 5 Mobile, has level * 10 hp.
InitLocks ==
  LET w == PyWebLoginSection(py_player_login(LoadedWorld, 1, "Rogue"), 2, "bob")
  IN  /\ players = w.players
      /\ pl = w.pl
      /\ rooms = w.rooms
      /\ mobs = [m \in MobIds |-> [w.mobs[m] EXCEPT !.hp = MobData[m].level * 10]]
      /\ combatants = w.combatants
      /\ profiles = w.profiles
      /\ portal_connections = EmptyDict
      /\ web_player_sessions = (2 :> "bob")
      /\ sess = (1 :> [kind |-> "telnet", pc |-> "playing", player |-> 1]) @@
                (2 :> [kind |-> "web", pc |-> "playing", player |-> NoObj])
      /\ reply = [s \in Sessions |-> "welcome"]
      /\ nextObj = 3
      /\ server_running = TRUE
      /\ players_lock = {}
      /\ local = [s \in Sessions |-> NoLocal]
      /\ main = Serving
      /\ net = NoNet

NextLocks ==
  \/ \E s \in Sessions, n \in AttackWords : PyAttackCmd(s, n)
  \/ \E s \in Sessions : PyFleeCmd(s)
  \/ \E draws \in PyTickDraws : PyCombatRound(draws)
  \/ \E r1, r2 \in Rooms : PyCreatePortalStorm(r1, r2)
  \/ PyEventsExpire
  \/ PyCleanupExpired
  \/ \E s \in Sessions : PyEnterPortalCmd(s)
  \/ \E s \in Sessions, d \in Directions : PyMoveCmd(s, d)

SpecLocks == InitLocks /\ [][NextLocks]_vars

\* C20: the last statement that read or wrote combatants or active_events
\* ran in a thread that held the lock declared for that registry.
C20_RegistryAccessHoldsLock == net.access.registry # "none" => net.access.held


(***************************************************************************)
(* Sessions and the Players they drive                                     *)
(***************************************************************************)
\* C21: every registered Player is driven by exactly one live connection: the
\* telnet handler whose `player` it is, or the web session id that
\* web_player_sessions maps to its name.
C21_OneSessionPerPlayer ==
  \A k \in DOMAIN players :
    Cardinality({s \in Sessions :
                   /\ sess[s].pc = "playing"
                   /\ IF sess[s].kind = "telnet"
                      THEN sess[s].player = players[k]
                      ELSE /\ s \in DOMAIN web_player_sessions
                           /\ web_player_sessions[s] = k}) = 1


\* C22: once the shutdown handler has run and the stop flag is set, no Player
\* is registered.
C22_ShutdownEmptiesRegistry == ~server_running => players = EmptyDict


(***************************************************************************)
(* pymud-multi.py: the life of a world event                               *)
(***************************************************************************)
\* spawn_merchant_event(room_vnum): the entry has a 'duration' and no
\* 'end_time'.
spawn_merchant_event(w, room_vnum) ==
  Touch([w EXCEPT !.net.active_events[room_vnum] =
                     [type |-> "merchant", destination |-> 0,
                      end_time |-> FALSE, expired |-> FALSE]],
        "active_events", EventsThread)

\* world_events_loop: trigger_random_event picks
\* spawn_merchant_event(random.choice(list(rooms.keys()))).
PySpawnMerchant(room_vnum) ==
  /\ Put(spawn_merchant_event(World, room_vnum), sess)
  /\ UNCHANGED <<portal_connections, web_player_sessions, reply, nextObj,
                 server_running, threads>>

\* The world-event thread beside the sessions; of the three kinds of event,
\* portal pairs and merchants are followed.
NextEvents ==
  \/ \E r1, r2 \in Rooms : PyCreatePortalStorm(r1, r2)
  \/ \E r \in Rooms : PySpawnMerchant(r)
  \/ PyEventsExpire
  \/ PyCleanupExpired
  \/ \E s \in Sessions : PyEnterPortalCmd(s)
  \/ \E s \in Sessions, d \in Directions : PyMoveCmd(s, d)

SpecEvents == InitLocks /\ [][NextEvents]_vars

\* C23: in every state a run of cleanup_expired_events leaves no event whose
\* lifetime is over in active_events.
C23_ExpiredEventsRemoved ==
  LET after == cleanup_expired_events(World, portal_connections).w
  IN  \A r \in Rooms : ~(/\ after.net.active_events[r].type # "none"
                         /\ after.net.active_events[r].expired)

\* C24: a step never replaces an entry of active_events: an entry stays as it
\* is, passes its deadline, or is deleted.
C24_SpawnOnlyInFreeRoom ==
  [][\A r \in Rooms :
       net.active_events[r].type # "none" =>
         \/ net'.active_events[r].type = "none"
         \/ /\ net'.active_events[r].type = net.active_events[r].type
            /\ net'.active_events[r].destination = net.active_events[r].destination
            /\ net.active_events[r].expired => net'.active_events[r].expired]_vars


(***************************************************************************)
(* The dialogue service: llm_chat                                          *)
(***************************************************************************)
\* What requests.post(llm_url, ...) and the body of its answer can be.
LlmOutcomes ==
  {"content", "empty_content", "connection_refused", "http_error", "not_json",
   "no_choices", "null_content", "no_answer"}

\* llm_chat of mud-multi.py. RequestException (connection refused,
\* raise_for_status), ValueError (response.json()) and KeyError are caught.
\* result.get('choices', [{}])[0] on "choices": [] is an IndexError, and
\* .get('content', '').strip() on "content": null an AttributeError: neither
\* is caught. requests.post is called without timeout=, so a server that
\* never answers keeps the call from returning.
llm_chat(outcome) ==
  CASE outcome = "content" -> "ai_reply"
    [] outcome \in {"empty_content", "connection_refused", "http_error",
                    "not_json"} -> "fallback"
    [] outcome \in {"no_choices", "null_content"} -> "raised"
    [] outcome = "no_answer" -> "blocked"

\* The room in which an NPC stands.
NpcRoom == 2201

\* 'talk <npc>' or 'say <message>' in a room with an NPC: the reply of
\* llm_chat is broadcast to the room; an exception leaves
\* process_player_command.
TalkCmd(s, outcome) ==
  /\ CanCommand(s)
  /\ pl[Actor(s)].current_room = NpcRoom
  /\ LET ai_reply == llm_chat(outcome)
         w == [World EXCEPT !.net.talk[s] = outcome]
     IN  CASE ai_reply \in {"ai_reply", "fallback"} ->
                /\ Put(w, sess)
                /\ reply' = [reply EXCEPT ![s] = ai_reply]
           [] ai_reply = "raised" /\ sess[s].kind = "telnet" ->
                /\ Put(ClientExit(w, sess[s].player),
                       [sess EXCEPT ![s] = ClosedSession])
                /\ UNCHANGED reply
           [] ai_reply = "raised" /\ sess[s].kind = "web" ->
                /\ Put(w, sess)
                /\ reply' = [reply EXCEPT ![s] = "command_error"]
           [] ai_reply = "blocked" ->
                /\ Put(w, [sess EXCEPT ![s].pc = "blocked"])
                /\ UNCHANGED reply
  /\ UNCHANGED <<portal_connections, web_player_sessions, nextObj,
                 server_running, threads>>

NextTalk ==
  \/ \E s \in Sessions, name \in Names : TelnetLogin(s, name)
  \/ \E s \in Sessions, name \in Names : WebLogin(s, name)
  \/ \E s \in Sessions, d \in Directions : MoveCmd(s, d)
  \/ \E s \in Sessions, outcome \in LlmOutcomes : TalkCmd(s, outcome)

SpecTalk == Init /\ [][NextTalk]_vars

\* C25: a connection whose last request to the dialogue service failed was
\* told the fallback line and is still in its command loop.
C25_FallbackOnFailure ==
  \A s \in Sessions :
    net.talk[s] \notin {"none", "content"} =>
      /\ reply[s] = "fallback"
      /\ sess[s].pc = "playing"


(***************************************************************************)
(* Profiles: save, quit, log in again                                      *)
(***************************************************************************)
\* Hit points a player of pymud-multi.py can have when it is saved:
\* player_attack subtracts the damage with no floor.
ProfileHps == {0 - 2, 0, 1, PyVitality * 10}

ProfileLevels == {1, 2}

\* Inventories: nothing, or an Object bought from a merchant.
ProfileInventories == {<<>>, <<8000>>}

\* pymud-multi.py: Rogue is logged in by telnet.
InitProfile ==
  \E hp \in ProfileHps, level \in ProfileLevels, inventory \in ProfileInventories :
    LET w0 == py_player_login(LoadedWorld, 1, "Rogue")
        w == [w0 EXCEPT !.pl[1].hp = hp, !.pl[1].level = level,
                        !.pl[1].experience = (level - 1) * 100,
                        !.pl[1].inventory = inventory]
    IN  /\ players = w.players
        /\ pl = w.pl
        /\ rooms = w.rooms
        /\ mobs = w.mobs
        /\ combatants = w.combatants
        /\ profiles = w.profiles
        /\ portal_connections = EmptyDict
        /\ web_player_sessions = EmptyDict
        /\ sess = (1 :> [kind |-> "telnet", pc |-> "playing", player |-> 1]) @@
                  (2 :> NewSession)
        /\ reply = [s \in Sessions |-> "welcome"]
        /\ nextObj = 2
        /\ server_running = TRUE
        /\ players_lock = {}
        /\ local = [s \in Sessions |-> NoLocal]
        /\ main = Serving
        /\ net = NoNet

NextProfile ==
  \/ \E s \in Sessions, name \in Names : PyTelnetLogin(s, name)
  \/ \E s \in Sessions : PyTelnetEnd(s)
  \/ \E s \in Sessions : Connect(s)
  \/ \E s \in Sessions, d \in Directions : PyMoveCmd(s, d)

SpecProfile == InitProfile /\ [][NextProfile]_vars

is_connected(w, o) == w.pl[o].connected

\* C27: on the handler of every player, telnet or web, a second
\* close_connection raises nothing and leaves the handler as the first call
\* left it, and is_connected() is false after each of the two calls.
C27_CloseTwiceIsCloseOnce ==
  \A k \in DOMAIN players :
    LET o == players[k]
        once == close_connection(World, o)
        twice == close_connection(once, o)
    IN  /\ once.raised = World.raised /\ twice.raised = World.raised
        /\ twice = once
        /\ ~is_connected(once, o) /\ ~is_connected(twice, o)

\* A telnet player and a web player are registered with open connections,
\* which the first close_connection closes.
C27_Witness ==
  /\ \E s \in Sessions :
       /\ sess[s].kind = "telnet" /\ sess[s].pc = "playing"
       /\ pl[sess[s].player].name \in DOMAIN players
       /\ is_connected(World, sess[s].player)
       /\ ~is_connected(close_connection(World, sess[s].player), sess[s].player)
  /\ \E s \in DOMAIN web_player_sessions :
       /\ web_player_sessions[s] \in DOMAIN players
       /\ is_connected(World, players[web_player_sessions[s]])
       /\ close_connection(World, players[web_player_sessions[s]]) # World


(***************************************************************************)
(* Teardown after the name has been taken again                            *)
(***************************************************************************)
\* The registry entries and the profiles of the Players other than o are in
\* `after` what they are now.
KeepsOthers(o, after) ==
  \A k \in DOMAIN players :
    players[k] # o =>
      /\ k \in DOMAIN after.players
      /\ after.players[k] = players[k]
      /\ after.profiles[k] = profiles[k]

\* C28: the finally block of a telnet handler, and handle_web_disconnect
\* after a web quit, leave the registry entry and the saved profile of every
\* Player other than the session's own as they are, whatever the other
\* threads have done since the session's Player was registered.
C28_TeardownKeepsOthers ==
  /\ \A s \in Sessions :
       sess[s].pc \in {"finally", "finally_drop"} =>
         KeepsOthers(local[s].player, FinallyBlock(World, local[s].player))
  /\ \A s \in Sessions :
       (sess[s].pc = "web_disconnect" /\ s \in DOMAIN web_player_sessions) =>
         KeepsOthers(local[s].player,
                     handle_web_disconnect(World, web_player_sessions, s).w)


(***************************************************************************)
(* Attacks of a combat round and the rooms of the fighters                 *)
(***************************************************************************)
\* C29: every attack that a combat_round applies is between two entities
\* that are in the same room when it is applied, whatever the rolls.
C29_NoAttackAcrossRooms ==
  \A draws \in TickDraws :
    LET w == combat_round(World, draws)
    IN  \A j \in 1..Len(w.attacks) :
          w.attacks[j].rooms[1] = w.attacks[j].rooms[2]


(***************************************************************************)
(* Login with a saved room                                                 *)
(***************************************************************************)
\* C30: a login under a free name whose saved profile holds a room other
\* than 2201 leaves the new Player once in the occupant list of the saved
\* room and not in the occupant list of room 2201.
C30_LoginListsRestoredRoom ==
  \A name \in Names :
    LET saved == profiles[name]
    IN  ( /\ nextObj \in ObjIds
          /\ ~NameInUse(World, name)
          /\ saved.exists
          /\ saved.current_room_vnum \in Rooms \ {StartRoom} ) =>
          LET after == CreateAndRegister(World, nextObj, name)
          IN  /\ after.pl[nextObj].current_room = saved.current_room_vnum
              /\ Count(after.rooms[saved.current_room_vnum].players, nextObj) = 1
              /\ Count(after.rooms[StartRoom].players, nextObj) = 0


(***************************************************************************)
(* Teleport and the occupant lists                                         *)
(***************************************************************************)
\* C31: a teleport of a registered player, who is in the occupant list of
\* its room, to another room that exists leaves the player in the occupant
\* list of the destination and not in the one of the origin, with
\* current_room the destination.
C31_TeleportMovesOccupant ==
  \A k \in DOMAIN players :
    \A room_vnum \in Rooms :
      LET o == players[k]
          origin == pl[o].current_room
          after == Teleport(World, o, room_vnum)
      IN  (room_vnum # origin /\ Count(rooms[origin].players, o) = 1) =>
            /\ after.pl[o].current_room = room_vnum
            /\ Count(after.rooms[room_vnum].players, o) = 1
            /\ Count(after.rooms[origin].players, o) = 0


(***************************************************************************)
(* Scheduled NPCs (mud-multi.py: npc_movement_loop)                        *)
(***************************************************************************)
\* One schedule entry of npc at the hour current_time.
NpcScheduleEntry(w, npc, schedule_entry, current_time) ==
  LET schedule_time == schedule_entry[1]
      room_vnum == schedule_entry[2]
      current_room == w.mobs[npc].current_room
  IN  IF /\ schedule_time = current_time
         /\ current_room # 0
         /\ current_room # room_vnum
         /\ room_vnum \in Rooms
      THEN [w EXCEPT !.rooms[current_room].mobs = Remove(@, npc),
                     !.mobs[npc].current_room = room_vnum,
                     !.rooms[room_vnum].mobs = Append(@, npc)]
      ELSE w

\* for schedule_entry in npc.schedule: ...   from the i-th entry on
RECURSIVE NpcScheduleFrom(_, _, _, _)
NpcScheduleFrom(w, npc, i, current_time) ==
  IF i > Len(MobData[npc].schedule) THEN w
  ELSE NpcScheduleFrom(NpcScheduleEntry(w, npc, MobData[npc].schedule[i],
                                        current_time),
                       npc, i + 1, current_time)

\* for npc in all_npcs: ...   from the i-th NPC on
RECURSIVE NpcsFrom(_, _, _)
NpcsFrom(w, i, current_time) ==
  IF i > Len(all_npcs) THEN w
  ELSE NpcsFrom(NpcScheduleFrom(w, all_npcs[i], 1, current_time), i + 1,
                current_time)

\* One pass of npc_movement_loop at the hour current_time.
npc_movement_loop(w, current_time) == NpcsFrom(w, 1, current_time)

NpcMovementTick(current_time) ==
  /\ Put(npc_movement_loop(World, current_time), sess)
  /\ UNCHANGED <<portal_connections, web_player_sessions, reply, nextObj,
                 server_running, threads>>

\* What a player types after `attack` in a room with the guard.
NpcAttackWords == {"guard"}

\* The levels up to which the players of this specification attack.
MaxNpcLevel == 1

\* The draws of an attack command: the player hits or misses, and the
\* retaliation of the target misses.
NpcDraws ==
  {<<d, [hit |-> 100, crit |-> 100, below |-> 0, variance |-> 0]>> :
     d \in SampleDraws}

\* `attack <name>` typed while no player is above MaxNpcLevel.
NpcAttackCmd(s, name, d) ==
  /\ \A o \in ObjIds : pl[o].level <= MaxNpcLevel
  /\ AttackCmd(s, name, d)

NextNpc ==
  \/ \E s \in Sessions, d \in Directions : MoveCmd(s, d)
  \/ \E s \in Sessions, n \in NpcAttackWords, d \in NpcDraws : NpcAttackCmd(s, n, d)
  \/ \E current_time \in Hours : NpcMovementTick(current_time)

SpecNpc == InitCombat /\ [][NextNpc]_vars

\* The rooms whose inhabitant list holds mob m.
RoomsListing(w, m) == {r \in Rooms : Contains(w.rooms[r].mobs, m)}

\* C32: an NPC that has been defeated and taken out of its room's
\* inhabitant list is in no room's inhabitant list after a pass of the
\* scheduled-movement ticker, at whatever hour.
C32_DefeatedNpcStaysGone ==
  \A i \in 1..Len(all_npcs) :
    LET npc == all_npcs[i]
    IN  (mobs[npc].hp <= 0 /\ RoomsListing(World, npc) = {}) =>
          \A current_time \in Hours :
            RoomsListing(npc_movement_loop(World, current_time), npc) = {}


(***************************************************************************)
(* Combat pairs of a player (mud-multi.py)                                 *)
(***************************************************************************)
\* The pairs of combatants that hold the name n.
PairsOf(n) == {i \in 1..Len(combatants) : n \in {combatants[i][1], combatants[i][2]}}

\* Attack commands are typed while no player has lost more than this.
MaxFightWound == 20

\* Words a player types after `attack`: the goblin or a player.
FightWords == {"goblin", "rogue", "bob"}

\* The attack command up to its test: the target is found and
\* `not in_combat(player) and not in_combat(target)` is evaluated; no lock is
\* held, and other threads run before start_combat.
CAttackTest(s, name) ==
  /\ CanCommand(s)
  /\ \A k \in DOMAIN players :
       pl[players[k]].hp >= pl[players[k]].max_hp - MaxFightWound
  /\ LET target == find_target_in_room_by_index(World, pl[Actor(s)].current_room,
                                                name)
     IN  /\ target # NoEnt
         /\ Put([World EXCEPT !.net.fight[s] =
                    [target |-> target,
                     test |-> AttackTest(World, PlayerEnt(Actor(s)), target)]],
                [sess EXCEPT ![s].pc = "attack_start"])
  /\ UNCHANGED <<portal_connections, web_player_sessions, reply, nextObj,
                 server_running, threads>>

\* The attack command from start_combat on.
CAttackStart(s, d) ==
  /\ sess[s].pc = "attack_start"
  /\ Put([AttackFrom(World, Actor(s), net.fight[s].target, net.fight[s].test, d)
            EXCEPT !.net.fight[s] = [target |-> NoEnt, test |-> FALSE]],
         [sess EXCEPT ![s].pc = "playing"])
  /\ UNCHANGED <<portal_connections, web_player_sessions, reply, nextObj,
                 server_running, threads>>

NextFight ==
  \/ \E s \in Sessions, d \in Directions : MoveCmd(s, d)
  \/ \E s \in Sessions, name \in FightWords : CAttackTest(s, name)
  \/ \E s \in Sessions, d \in NpcDraws : CAttackStart(s, d)

SpecFight == InitCombat /\ [][NextFight]_vars

\* C33: the name of a registered player is in at most one pair of combatants.
C33_OnePairPerPlayer ==
  \A k \in DOMAIN players : Cardinality(PairsOf(pl[players[k]].name)) <= 1


(***************************************************************************)
(* The scheduled-movement ticker and summon, statement by statement        *)
(* (mud-multi.py): neither takes a lock.                                   *)
(***************************************************************************)
\* The ticker and summon start while the inhabitant lists are no longer
\* than this.
MaxMobList == 2

MobListsBounded == \A r \in Rooms : Len(rooms[r].mobs) <= MaxMobList

\* summon_command for a mob found in the world, as one step.
summon_command(w, o, mob_name) ==
  LET target == find_entity_globally(w, mob_name)
  IN  IF target.t # "mob" THEN w
      ELSE LET m == target.id
               w1 == [w EXCEPT !.rooms[w.mobs[m].current_room].mobs = Remove(@, m)]
           IN  [w1 EXCEPT !.mobs[m].current_room = w.pl[o].current_room,
                          !.rooms[w.pl[o].current_room].mobs = Append(@, m)]

\* npc_movement_loop: the test of a schedule entry that is due, and
\* `if npc in npc.current_room.mobs: npc.current_room.mobs.remove(npc)`
NTickRemove(current_time) ==
  /\ net.npc_tick.pc = "idle"
  /\ MobListsBounded
  /\ \E i \in 1..Len(all_npcs) :
       \E j \in 1..Len(MobData[all_npcs[i]].schedule) :
         LET npc == all_npcs[i]
             schedule_time == MobData[npc].schedule[j][1]
             room_vnum == MobData[npc].schedule[j][2]
             current_room == mobs[npc].current_room
         IN  /\ schedule_time = current_time
             /\ current_room # 0
             /\ current_room # room_vnum
             /\ room_vnum \in Rooms
             /\ Put([World EXCEPT
                       !.rooms[current_room].mobs = Remove(@, npc),
                       !.net.npc_tick = [pc |-> "set", npc |-> npc,
                                         room_vnum |-> room_vnum]], sess)
  /\ UNCHANGED <<portal_connections, web_player_sessions, reply, nextObj,
                 server_running, threads>>

\* npc.current_room = rooms[room_vnum]
NTickSet ==
  /\ net.npc_tick.pc = "set"
  /\ Put([World EXCEPT !.mobs[net.npc_tick.npc].current_room = net.npc_tick.room_vnum,
                       !.net.npc_tick.pc = "append"], sess)
  /\ UNCHANGED <<portal_connections, web_player_sessions, reply, nextObj,
                 server_running, threads>>

\* npc.current_room.mobs.append(npc): the entry is done.
NTickAppend ==
  /\ net.npc_tick.pc = "append"
  /\ Put([World EXCEPT
            !.rooms[mobs[net.npc_tick.npc].current_room].mobs =
               Append(@, net.npc_tick.npc),
            !.net.npc_tick = [pc |-> "idle", npc |-> 0, room_vnum |-> 0]], sess)
  /\ UNCHANGED <<portal_connections, web_player_sessions, reply, nextObj,
                 server_running, threads>>

\* summon_command: the mob is found and
\* `if target in target.current_room.mobs: target.current_room.mobs.remove(target)`
CSummonRemove(s, mob_name) ==
  /\ CanCommand(s)
  /\ MobListsBounded
  /\ LET target == find_entity_globally(World, mob_name)
     IN  /\ target.t = "mob"
         /\ Put([World EXCEPT
                   !.rooms[mobs[target.id].current_room].mobs = Remove(@, target.id),
                   !.net.summon[s] = target.id],
                [sess EXCEPT ![s].pc = "summon_set"])
  /\ UNCHANGED <<portal_connections, web_player_sessions, reply, nextObj,
                 server_running, threads>>

\* target.current_room = player.current_room
\* player.current_room.mobs.append(target)
CSummonSet(s) ==
  /\ sess[s].pc = "summon_set"
  /\ Put([World EXCEPT
            !.mobs[net.summon[s]].current_room = pl[Actor(s)].current_room,
            !.rooms[pl[Actor(s)].current_room].mobs = Append(@, net.summon[s]),
            !.net.summon[s] = 0],
         [sess EXCEPT ![s].pc = "playing"])
  /\ UNCHANGED <<portal_connections, web_player_sessions, reply, nextObj,
                 server_running, threads>>

\* What a player types after `summon`.
SummonWords == {"guard"}

NextSummon ==
  \/ \E s \in Sessions, d \in Directions : MoveCmd(s, d)
  \/ \E current_time \in Hours : NTickRemove(current_time)
  \/ NTickSet
  \/ NTickAppend
  \/ \E s \in Sessions, mob_name \in SummonWords : CSummonRemove(s, mob_name)
  \/ \E s \in Sessions : CSummonSet(s)

SpecSummon == InitCombat /\ [][NextSummon]_vars

\* C34: when the ticker has done a schedule entry that was due, the NPC is
\* in the inhabitant list of the target room once and of no other room, and
\* its current_room is the target room, whatever the session threads have
\* done in between.
C34_TickLeavesNpcInTarget ==
  [][(net.npc_tick.pc = "append" /\ net'.npc_tick.pc = "idle") =>
       LET npc == net.npc_tick.npc
           room_vnum == net.npc_tick.room_vnum
       IN  /\ mobs'[npc].current_room = room_vnum
           /\ \A r \in Rooms :
                Count(rooms'[r].mobs, npc) = IF r = room_vnum THEN 1 ELSE 0]_vars


(***************************************************************************)
(* Area spells of pymud-multi.py (process_player_command, cast)            *)
(***************************************************************************)
\* int(random.randint(base_damage[0], base_damage[1]) * damage_multiplier)
PySpellDamage(spell, roll) == roll * spell.damage_multiplier

\* The list `targets` of an area_offensive cast: the mobs of the caster's
\* room that are no NPCs.
PyAreaTargets(w, o) ==
  SelectSeq(w.rooms[w.pl[o].current_room].mobs, LAMBDA m : ~MobData[m].is_npc)

\* for target in targets: ...   from the i-th target on, then start_combat
\* with the survivors and the attack of one of them on the caster.
RECURSIVE PyAreaFrom(_, _, _, _, _, _, _)
PyAreaFrom(w, o, targets, i, damage, surviving_targets, r) ==
  IF i > Len(targets)
  THEN IF surviving_targets = <<>> THEN w
       ELSE LET w1 == [w EXCEPT !.combatants =
                         @ \o SelectSeq(
                                [j \in 1..Len(surviving_targets) |->
                                   SortedPair(w.pl[o].name,
                                              MobData[surviving_targets[j]].short_desc)],
                                LAMBDA pair : ~Contains(w.combatants, pair))]
                retaliating_target ==
                  surviving_targets[((r.pick - 1) % Len(surviving_targets)) + 1]
            IN  py_player_attack(w1, MobEnt(retaliating_target), PlayerEnt(o), r)
  ELSE LET target == targets[i]
           room == w.pl[o].current_room
           w1 == [w EXCEPT !.mobs[target].hp = @ - damage]
       IN  IF w1.mobs[target].hp <= 0
           THEN PyAreaFrom(
                  [w1 EXCEPT !.pl[o].experience = @ + MobData[target].level * 20,
                             !.rooms[room].mobs = Remove(@, target)],
                  o, targets, i + 1, damage, surviving_targets, r)
           ELSE PyAreaFrom(w1, o, targets, i + 1, damage,
                           Append(surviving_targets, target), r)

\* cast <spell> for a spell of type area_offensive
py_cast_area_offensive(w, o, spell_name, roll, r) ==
  LET spell == SpellData[spell_name]
  IN  IF w.pl[o].mana < spell.mana_cost THEN w
      ELSE LET w1 == [w EXCEPT !.pl[o].mana = @ - spell.mana_cost]
               targets == PyAreaTargets(w1, o)
           IN  IF targets = <<>> THEN w1
               ELSE PyAreaFrom(w1, o, targets, 1, PySpellDamage(spell, roll),
                               <<>>, r)

PyAreaDraws == {[hit |-> h, top |-> TRUE, pick |-> 1] : h \in HitRolls}

PyCastAreaCmd(s, roll, r) ==
  /\ CanCommand(s)
  /\ Command(s, py_cast_area_offensive(World, Actor(s), "chain lightning", roll, r))

NextPyCast ==
  \/ \E s \in Sessions, d \in Directions : PyMoveCmd(s, d)
  \/ \E s \in Sessions, n \in AttackWords : PyAttackCmd(s, n)
  \/ \E s \in Sessions, r \in PyAreaDraws :
       \E roll \in SpellData["chain lightning"].base_damage[1]..
                   SpellData["chain lightning"].base_damage[2] :
         PyCastAreaCmd(s, roll, r)

SpecPyCast == InitLocks /\ [][NextPyCast]_vars

\* The players other than o that stand in o's room.
OtherPlayersInRoom(o) ==
  {players[k] : k \in {k \in DOMAIN players :
                         /\ players[k] # o
                         /\ pl[players[k]].current_room = pl[o].current_room}}

\* C35: an area cast of a player with the mana for it hits every mob of the
\* caster's room that is no NPC and every other player of the room once:
\* each of them loses the damage of the spell once, a defeated mob is out of
\* the room's list afterwards, and the NPCs of the room keep their health.
C35_AreaCastHitsEachOnce ==
  \A k \in DOMAIN players :
    \A r \in PyAreaDraws :
      LET o == players[k]
          spell == SpellData["chain lightning"]
          roll == spell.base_damage[1]
          damage == PySpellDamage(spell, roll)
          room == pl[o].current_room
          after == py_cast_area_offensive(World, o, "chain lightning", roll, r)
      IN  pl[o].mana >= spell.mana_cost =>
            /\ \A i \in 1..Len(rooms[room].mobs) :
                 LET m == rooms[room].mobs[i]
                 IN  IF MobData[m].is_npc
                     THEN after.mobs[m].hp = mobs[m].hp
                     ELSE /\ after.mobs[m].hp = mobs[m].hp - damage
                          /\ after.mobs[m].hp <= 0 =>
                               ~Contains(after.rooms[room].mobs, m)
            /\ \A p \in OtherPlayersInRoom(o) :
                 after.pl[p].hp < pl[p].hp


(***************************************************************************)
(* Commands that name something absent (mud-multi.py)                      *)
(***************************************************************************)
\* Words a player types as a target.
TargetWords == {"goblin", "guard", "rogue", "bob"}

\* The word names the mob.
NamesMob(word, m) ==
  \/ IsSubstring(word, MobData[m].short_desc)
  \/ \E kw \in MobData[m].keywords : IsSubstring(word, kw)

\* Nothing the word names is in the room of player o: no mob of the room's
\* inhabitant list, no player of its occupant list, no player whose
\* current_room it is.
AbsentHere(o, word) ==
  LET room == pl[o].current_room
  IN  /\ \A i \in 1..Len(rooms[room].mobs) : ~NamesMob(word, rooms[room].mobs[i])
      /\ \A i \in 1..Len(rooms[room].players) :
           ~IsSubstring(word, Lower(pl[rooms[room].players[i]].name))
      /\ \A k \in DOMAIN players :
           pl[players[k]].current_room = room =>
             ~IsSubstring(word, Lower(pl[players[k]].name))

C37_PortalLinksMatchEvents ==
  \A a \in DOMAIN portal_connections :
    LET b == portal_connections[a]
    IN  /\ b \in DOMAIN portal_connections
        /\ portal_connections[b] = a
        /\ net.active_events[a].type = "portal"
        /\ net.active_events[a].destination = b


(***************************************************************************)
(* players_lock is a threading.Lock: a thread that asks for it while it    *)
(* holds it waits for ever.                                                *)
(***************************************************************************)
\* The ticker is in send_to_player, or before broadcast_room's
\* `with players_lock:`: a place from which players_lock is, or may be, asked for.
TickerMayAcquire == net.bc.pc \in {"idle", "check", "sendall"}

C39_HpWithinBounds ==
  \A k \in DOMAIN players :
    /\ 0 <= pl[players[k]].hp
    /\ pl[players[k]].hp <= pl[players[k]].max_hp


\* Words typed after 'attack' in pymud-multi.py: the mob and the two players.
DuelWords == {"goblin", "bob", "rogue"}

NextDuel ==
  \/ \E s \in Sessions, n \in DuelWords : PyAttackCmd(s, n)
  \/ \E s \in Sessions : PyFleeCmd(s)
  \/ \E draws \in PyTickDraws : PyCombatRound(draws)
  \/ \E s \in Sessions, d \in Directions : PyMoveCmd(s, d)

SpecDuel == InitLocks /\ [][NextDuel]_vars


\* C40: after check_level_up has returned, the experience of every player is
\* below the threshold of the level the player has: experience < level * 100.
\* Every gain of experience is followed by check_level_up in the same handler.
C40_ExperienceBelowThreshold ==
  \A k \in DOMAIN players :
    pl[players[k]].experience < pl[players[k]].level * 100

=============================================================================
